---- MODULE Spec2Model ----
(***************************************************************************)
(* disk-hog-backup (Go): set naming and discovery (package backup_sets),   *)
(* the recursive copier (package dhcopy), the hard linker (package         *)
(* hard_linker) and the Backup orchestrator (package backup).              *)
(*                                                                         *)
(* Text is a sequence of byte codes (ASCII), so that formatting, regexp    *)
(* matching and the lexicographic order of directory listings are          *)
(* computed, not assumed.  A time.Time is the record of its calendar       *)
(* fields in one fixed-offset location; the order of instants is then the  *)
(* lexicographic order of the fields.                                      *)
(***************************************************************************)
EXTENDS Integers, Sequences, FiniteSets, TLC

VARIABLES src, destExists, dest, inodes, runs, edits, created, call, global_memory, pipes, copy, space, mf, reclaim

vars == <<src, destExists, dest, inodes, runs, edits, created, call, global_memory, pipes, copy, space, mf, reclaim>>

(***************************************************************************)
(* Bounds of the model.                                                    *)
(***************************************************************************)
\* Backup invocations in one behaviour.
MaxRuns == 2
\* Edits of the source tree (write, mkdir, remove) in one behaviour.
MaxEdits == 3
\* Entries made directly under the destination in the discovery model.
MaxEntries == 4

(***************************************************************************)
(* Text.                                                                   *)
(***************************************************************************)
Dash == <<45>>
Digits09 == 48..57

\* "dhb-set"
prefix == <<100, 104, 98, 45, 115, 101, 116>>

\* Lexicographic (byte-wise) order of two texts, the order in which ioutil.ReadDir
\* lists the entries of a folder.
RECURSIVE LexLess(_, _)
LexLess(a, b) ==
    IF b = <<>> THEN FALSE
    ELSE IF a = <<>> THEN TRUE
    ELSE IF Head(a) # Head(b) THEN Head(a) < Head(b)
    ELSE LexLess(Tail(a), Tail(b))

(***************************************************************************)
(* fmt.Sprintf verbs %0Nd: the decimal digits of the number, left-padded   *)
(* with zeros up to the width; a number with more digits than the width is *)
(* printed in full, and the sign of a negative number counts in the width. *)
(***************************************************************************)
RECURSIVE DecimalDigits(_)
DecimalDigits(n) ==
    IF n < 10 THEN <<48 + n>>
    ELSE DecimalDigits(n \div 10) \o <<48 + (n % 10)>>

RECURSIVE ZeroPad(_, _)
ZeroPad(s, w) == IF Len(s) >= w THEN s ELSE ZeroPad(<<48>> \o s, w)

SprintfD_NoPad(n, w) ==
    IF n < 0 THEN Dash \o DecimalDigits(0 - n) ELSE DecimalDigits(n)

SprintfD(n, w) ==
    IF n < 0 THEN Dash \o ZeroPad(DecimalDigits(0 - n), w - 1)
    ELSE ZeroPad(DecimalDigits(n), w)

(***************************************************************************)
(* time.Time, as read through Year(), Month(), Day(), Hour(), Minute(),    *)
(* Second() and Nanosecond().                                              *)
(***************************************************************************)
Time(y, mo, d, h, mi, s, ns) ==
    [year |-> y, month |-> mo, day |-> d, hour |-> h, minute |-> mi,
     second |-> s, nsec |-> ns]

(***************************************************************************)
(* backup_sets.GenerateName                                                *)
(***************************************************************************)
GenerateName_DayFirst(t) ==
    prefix \o Dash
      \o SprintfD(t.day, 2) \o SprintfD(t.month, 2) \o SprintfD(t.year, 4)
      \o Dash
      \o SprintfD(t.hour, 2) \o SprintfD(t.minute, 2) \o SprintfD(t.second, 2)

GenerateName(t) ==
    prefix \o Dash
      \o SprintfD(t.year, 4) \o SprintfD(t.month, 2) \o SprintfD(t.day, 2)
      \o Dash
      \o SprintfD(t.hour, 2) \o SprintfD(t.minute, 2) \o SprintfD(t.second, 2)

(***************************************************************************)
(* backup_sets.IsBackupSetName: regexp.MatchString of the pattern          *)
(* "^" + prefix + "-[0-9]{8}-[0-9]{6}$".  The pattern between the anchors  *)
(* is a sequence of atoms, each a character class repeated a fixed number  *)
(* of times.  "^" pins the match to the first byte; "$" (no flags) matches *)
(* only at the end of the text.                                            *)
(***************************************************************************)
Lit(s) == [i \in 1..Len(s) |-> [class |-> {s[i]}, count |-> 1]]

pattern ==
    Lit(prefix) \o Lit(Dash) \o <<[class |-> Digits09, count |-> 8]>>
      \o Lit(Dash) \o <<[class |-> Digits09, count |-> 6]>>

\* The atoms from index k on match s from position pos on, up to the end.
RECURSIVE MatchFrom_Unanchored(_, _, _, _)
MatchFrom_Unanchored(pat, k, s, pos) ==
    IF k > Len(pat) THEN TRUE
    ELSE LET a == pat[k] IN
         /\ pos + a.count - 1 <= Len(s)
         /\ \A i \in pos..(pos + a.count - 1) : s[i] \in a.class
         /\ MatchFrom_Unanchored(pat, k + 1, s, pos + a.count)

RECURSIVE MatchFrom(_, _, _, _)
MatchFrom(pat, k, s, pos) ==
    IF k > Len(pat) THEN pos = Len(s) + 1
    ELSE LET a == pat[k] IN
         /\ pos + a.count - 1 <= Len(s)
         /\ \A i \in pos..(pos + a.count - 1) : s[i] \in a.class
         /\ MatchFrom(pat, k + 1, s, pos + a.count)

IsBackupSetName(name) == MatchFrom(pattern, 1, name, 1)

(***************************************************************************)
(* The file systems.  The source tree maps a relative path to its entry;   *)
(* a file of the source carries its bytes.  The destination maps the name  *)
(* of each entry directly under it to that folder's tree; a file of the    *)
(* destination names an inode, and inodes maps an inode to its bytes, so   *)
(* two paths with the same inode are hard links of one file.               *)
(***************************************************************************)
Paths == {<<1>>, <<2>>, <<2, 1>>, <<2, 1, 1>>}

Contents == {"hello go", "backmeup susie"}

Parent(p) == SubSeq(p, 1, Len(p) - 1)

\* An entry of the source: its kind, the bytes of a file, and whether
\* os.Open of it succeeds (the permission bits allow reading).
NoSrcEntry == [kind |-> "none", data |-> "", readable |-> TRUE, target |-> <<>>]
SrcDir == [kind |-> "dir", data |-> "", readable |-> TRUE, target |-> <<>>]
SrcFile(d) == [kind |-> "file", data |-> d, readable |-> TRUE, target |-> <<>>]
\* A symbolic link to the path q of the source.
SrcLink(q) == [kind |-> "symlink", data |-> "", readable |-> TRUE, target |-> q]

NoEntry == [kind |-> "none", ino |-> 0]
DirEntry == [kind |-> "dir", ino |-> 0]
FileEntry(i) == [kind |-> "file", ino |-> i]

EmptySrc == [p \in Paths |-> NoSrcEntry]
EmptyTree == [p \in Paths |-> NoEntry]

\* The directory holding p exists (the root always does).
ParentIsDir(tree, p) ==
    IF Len(p) = 1 THEN TRUE ELSE tree[Parent(p)].kind = "dir"

\* p lies below (or is) q.
Under(p, q) == Len(p) >= Len(q) /\ SubSeq(p, 1, Len(q)) = q

\* The sequence of the elements of a finite set of numbers, ascending.
RECURSIVE SortNames(_)
SortNames(S) ==
    IF S = {} THEN <<>>
    ELSE LET m == CHOOSE x \in S : \A y \in S : x <= y
         IN <<m>> \o SortNames(S \ {m})

\* ioutil.ReadDir of a folder of a tree: the entries sorted by name, each
\* with its name and whether it is a directory.
ReadDir(tree, dir) ==
    LET names == {p[Len(p)] : p \in {q \in Paths : /\ Len(q) = Len(dir) + 1
                                                   /\ Parent(q) = dir
                                                   /\ tree[q].kind # "none"}}
        sorted == SortNames(names)
    IN [i \in 1..Len(sorted) |->
          [name |-> sorted[i],
           isDir |-> tree[dir \o <<sorted[i]>>].kind = "dir"]]

\* The sequence of the elements of a finite set of texts, ascending.
RECURSIVE SortText(_)
SortText(S) ==
    IF S = {} THEN <<>>
    ELSE LET m == CHOOSE x \in S : \A y \in S \ {x} : LexLess(x, y)
         IN <<m>> \o SortText(S \ {m})

\* ioutil.ReadDir of the destination root: the entry names, sorted.
ReadDirRoot(d) == SortText(DOMAIN d)

\* A running file-system computation: the destination, the inodes and how
\* far the process got ("ok", "err": a non-nil error was returned, "fatal":
\* log.Fatal ended the process).
FS(d, ino, st) == [dest |-> d, inodes |-> ino, status |-> st]

\* os.Mkdir(folder p of set): fails when p exists or its parent does not.
Mkdir_Skip(fs, set, p) ==
    IF fs.dest[set][p].kind = "none" /\ ParentIsDir(fs.dest[set], p)
    THEN fs
    ELSE [fs EXCEPT !.status = "err"]

Mkdir(fs, set, p) ==
    IF fs.dest[set][p].kind = "none" /\ ParentIsDir(fs.dest[set], p)
    THEN [fs EXCEPT !.dest[set][p] = DirEntry]
    ELSE [fs EXCEPT !.status = "err"]

\* os.Link(p of fromSet, q of toSet): fails when q exists or its parent does
\* not; otherwise q names the inode of p.
Link_NewInode(fs, fromSet, p, toSet, q) ==
    IF fs.dest[toSet][q].kind = "none" /\ ParentIsDir(fs.dest[toSet], q)
    THEN [fs EXCEPT !.inodes = Append(@, fs.inodes[fs.dest[fromSet][p].ino]),
                    !.dest[toSet][q] = FileEntry(Len(fs.inodes) + 1)]
    ELSE [fs EXCEPT !.status = "err"]

Link(fs, fromSet, p, toSet, q) ==
    IF fs.dest[toSet][q].kind = "none" /\ ParentIsDir(fs.dest[toSet], q)
    THEN [fs EXCEPT !.dest[toSet][q] = fs.dest[fromSet][p]]
    ELSE [fs EXCEPT !.status = "err"]

\* os.Open(p) follows symbolic links: the entry the path leads to, or none
\* for a link that leads nowhere or in a circle.
RECURSIVE Resolve(_, _, _)
Resolve(tree, p, hops) ==
    IF tree[p].kind # "symlink" THEN tree[p]
    ELSE IF hops = 0 THEN NoSrcEntry
    ELSE Resolve(tree, tree[p].target, hops - 1)

Open(tree, p) == Resolve(tree, p, Cardinality(Paths))

(***************************************************************************)
(* dhcopy.CopyFile: os.Open the source (an error is log.Fatal), os.Create   *)
(* the destination (an existing file is truncated and keeps its inode, a   *)
(* missing one gets a new inode, a directory or a missing parent is an     *)
(* error and log.Fatal), then io.Copy the bytes (reading from a directory  *)
(* that a link led to is an error and log.Fatal).                          *)
(***************************************************************************)
CopyFile_Empty(fs, srcTree, sp, set, dp) ==
    LET e == fs.dest[set][dp]
        s == Open(srcTree, sp)
    IN
    IF s.kind = "none" \/ ~s.readable
    THEN [fs EXCEPT !.status = "fatal"]
    ELSE IF e.kind = "dir" \/ ~ParentIsDir(fs.dest[set], dp)
    THEN [fs EXCEPT !.status = "fatal"]
    ELSE IF e.kind = "file"
    THEN [fs EXCEPT !.inodes[e.ino] = "",
                    !.status = IF s.kind = "dir" THEN "fatal" ELSE @]
    ELSE [fs EXCEPT !.inodes = Append(@, ""),
                    !.dest[set][dp] = FileEntry(Len(fs.inodes) + 1),
                    !.status = IF s.kind = "dir" THEN "fatal" ELSE @]

CopyFile(fs, srcTree, sp, set, dp) ==
    LET e == fs.dest[set][dp]
        s == Open(srcTree, sp)
    IN
    IF s.kind = "none" \/ ~s.readable
    THEN [fs EXCEPT !.status = "fatal"]
    ELSE IF e.kind = "dir" \/ ~ParentIsDir(fs.dest[set], dp)
    THEN [fs EXCEPT !.status = "fatal"]
    ELSE IF e.kind = "file"
    THEN [fs EXCEPT !.inodes[e.ino] = s.data,
                    !.status = IF s.kind = "dir" THEN "fatal" ELSE @]
    ELSE [fs EXCEPT !.inodes = Append(@, s.data),
                    !.dest[set][dp] = FileEntry(Len(fs.inodes) + 1),
                    !.status = IF s.kind = "dir" THEN "fatal" ELSE @]

(***************************************************************************)
(* dhcopy.CopyFolder(source folder sdir, folder ddir of set): for each     *)
(* entry of the source folder in listing order, a directory is made with   *)
(* os.Mkdir (an error is log.Fatal) and copied recursively, a file is      *)
(* copied with CopyFile.  CopyItems is the loop from item i on.            *)
(***************************************************************************)
RECURSIVE CopyFolder(_, _, _, _, _)
RECURSIVE CopyItems(_, _, _, _, _, _, _)
CopyItems(fs, srcTree, contents, i, sdir, set, ddir) ==
    IF fs.status # "ok" \/ i > Len(contents) THEN fs
    ELSE LET item == contents[i]
             sp == sdir \o <<item.name>>
             dp == ddir \o <<item.name>>
         IN IF item.isDir
            THEN LET m == Mkdir(fs, set, dp) IN
                 IF m.status # "ok" THEN [m EXCEPT !.status = "fatal"]
                 ELSE CopyItems(CopyFolder(m, srcTree, sp, set, dp),
                                srcTree, contents, i + 1, sdir, set, ddir)
            ELSE CopyItems(CopyFile(fs, srcTree, sp, set, dp),
                           srcTree, contents, i + 1, sdir, set, ddir)

CopyFolder(fs, srcTree, sdir, set, ddir) ==
    CopyItems(fs, srcTree, ReadDir(srcTree, sdir), 1, sdir, set, ddir)

(***************************************************************************)
(* hard_linker.HardLinkCopy(folder sdir of fromSet, folder ddir of toSet): *)
(* for each entry in listing order, a directory is made with os.Mkdir (an  *)
(* error is log.Fatal) and linked recursively, a file is linked with       *)
(* os.Link, whose error is returned at once.  LinkItems is the loop from   *)
(* item i on.                                                              *)
(***************************************************************************)
RECURSIVE HardLinkCopy(_, _, _, _, _)
RECURSIVE LinkItems(_, _, _, _, _, _, _)
LinkItems(fs, contents, i, fromSet, sdir, toSet, ddir) ==
    IF fs.status # "ok" \/ i > Len(contents) THEN fs
    ELSE LET item == contents[i]
             sp == sdir \o <<item.name>>
             dp == ddir \o <<item.name>>
         IN IF item.isDir
            THEN LET m == Mkdir(fs, toSet, dp) IN
                 IF m.status # "ok" THEN [m EXCEPT !.status = "fatal"]
                 ELSE LinkItems(HardLinkCopy(m, fromSet, sp, toSet, dp),
                                contents, i + 1, fromSet, sdir, toSet, ddir)
            ELSE LinkItems(Link(fs, fromSet, sp, toSet, dp),
                           contents, i + 1, fromSet, sdir, toSet, ddir)

HardLinkCopy(fs, fromSet, sdir, toSet, ddir) ==
    LinkItems(fs, ReadDir(fs.dest[fromSet], sdir), 1, fromSet, sdir, toSet, ddir)

(***************************************************************************)
(* backup_sets.FindLatestSet and filterDir                                 *)
(***************************************************************************)
\* filterDir with the predicate FindLatestSet hands it, IsBackupSetName of
\* the entry's name: the kept entries in listing order.
RECURSIVE filterDir(_)
filterDir(list) ==
    IF list = <<>> THEN <<>>
    ELSE (IF IsBackupSetName(Head(list)) THEN <<Head(list)>> ELSE <<>>)
           \o filterDir(Tail(list))

FindLatestSet_First(d, exists) ==
    IF ~exists THEN [name |-> <<>>, err |-> TRUE]
    ELSE LET backupSets == filterDir(ReadDirRoot(d)) IN
         IF Len(backupSets) < 1 THEN [name |-> <<>>, err |-> FALSE]
         ELSE [name |-> backupSets[1], err |-> FALSE]

FindLatestSet(d, exists) ==
    IF ~exists THEN [name |-> <<>>, err |-> TRUE]
    ELSE LET backupSets == filterDir(ReadDirRoot(d)) IN
         IF Len(backupSets) < 1 THEN [name |-> <<>>, err |-> FALSE]
         ELSE [name |-> backupSets[Len(backupSets)], err |-> FALSE]

\* os.MkdirAll(dest/name): an existing folder is left as it is.
MkdirAllRoot(d, name) ==
    IF name \in DOMAIN d THEN d ELSE d @@ (name :> EmptyTree)

(***************************************************************************)
(* The streaming copy pipeline of doc/adr/0001 (Implementation Outline):   *)
(* per file a reader thread (stream_file) and a writer thread (write_file) *)
(* joined by a bounded channel, a cancel flag, and the byte counter        *)
(* global_memory shared by the pipelines of all files, which main runs     *)
(* concurrently.  Sizes are in bytes, scaled down: the outline has 256 KiB *)
(* chunks, 32 chunks per channel and a 4 GiB cap.                          *)
(***************************************************************************)
\* Bytes per chunk.
CHUNK_SIZE == 2
\* Chunks the data channel of one file holds.
MAX_QUEUE_CHUNKS == 1
\* The cap on global_memory.
GLOBAL_MAX_BUFFER == 7
\* Two of the files that main hands to process_file, each on its own
\* thread.
Files == {1, 2}

\* Sizes of the source files: empty, less than a chunk, whole chunks, and
\* more chunks than the channel, the reader and the writer hold together,
\* the last one short.
FileSizes ==
    {0, 1, 2 * CHUNK_SIZE, (MAX_QUEUE_CHUNKS + 2) * CHUNK_SIZE + 1}

\* No file at the destination path.
NoFile == -1

\* The MD5 of the first len bytes of a content: equal digests exactly for
\* equal byte sequences.
Md5(content, len) == <<content, len>>

\* expected_md5 of process_file: None, the digest of the source as it is
\* now, or the digest of other bytes.
NoMd5 == <<>>
ExpectedMd5s(size) == {NoMd5, Md5("now", size), Md5("before", size)}

\* A chunk: the offset in the source of its first byte, and its length.
Chunk(off, len) == [off |-> off, len |-> len]
NoChunk == Chunk(0, 0)

\* A pipeline that process_file has not started; read, consumed and written
\* are the offsets of the chunks read from the source, fed to the hasher and
\* written to the destination, in the order it happened.
IdlePipe ==
    [state |-> "idle", size |-> 0, expected |-> NoMd5,
     rpc |-> "none", pos |-> 0, bytes_read |-> 0, hashed |-> 0,
     chan |-> <<>>, txOpen |-> FALSE, rxOpen |-> FALSE,
     cancel_flag |-> FALSE, md5 |-> <<>>,
     wpc |-> "none", chunk |-> NoChunk, dst |-> NoFile, inflight |-> 0,
     io_error |-> FALSE, read |-> <<>>, consumed |-> <<>>, written |-> <<>>]

(***************************************************************************)
(* The streaming copy of one file as the design describes it (section 4.F, *)
(* doc/threading.md): the fast path on equal size and mtime, or a reader,  *)
(* a hasher and a writer joined by two bounded channels, with the          *)
(* orchestrator comparing the digest, setting CancelWrite, joining and     *)
(* hard-linking.  The destination path names nothing ("none"), the file    *)
(* the writer created ("new") or the previous file ("prev").               *)
(***************************************************************************)
\* No previous-file record.
NoPrev == [exists |-> FALSE, hash |-> NoMd5, sameSizeMtime |-> FALSE]

\* The previous-file records a source of a given size can meet: content
\* unchanged or changed, size and mtime matching or not.
PrevRecords(size) ==
    {NoPrev} \cup
    {[exists |-> TRUE, hash |-> h, sameSizeMtime |-> m] :
        h \in {Md5("now", size), Md5("before", size)}, m \in BOOLEAN}

\* No streaming copy under way; reserved counts the bytes reserved on the
\* Accountant so far, consulted tells whether ensure_room_for was called;
\* rerr and werr tell of a read that failed and of a write that failed
\* ("first" with the flag still Running, "late" after CancelWrite was set).
IdleCopy ==
    [state |-> "idle", size |-> 0, prev |-> NoPrev,
     rpc |-> "none", pos |-> 0, n |-> 0,
     wchan |-> <<>>, hchan |-> <<>>, closed |-> FALSE,
     hpc |-> "none", hashed |-> 0, md5chan |-> <<>>,
     wpc |-> "none", held |-> 0, written |-> 0, dst |-> "none",
     flag |-> "Running", writerDoneAtCancel |-> FALSE,
     hardlinked |-> FALSE, hash |-> NoMd5,
     reserved |-> 0, consulted |-> FALSE,
     rerr |-> FALSE, werr |-> "none", failed |-> FALSE]

(***************************************************************************)
(* The Space Manager (section 4.I) during one run: the sets that existed   *)
(* under the destination when the run started, numbered in time order, the *)
(* bytes available there, and ensure_room_for before each file that is     *)
(* copied.                                                                 *)
(***************************************************************************)
\* Sets under the destination when a run starts.
MaxSets == 3
\* Files one run copies.
MaxFiles == 2
\* Bytes available under the destination when a run starts, at most.
MaxAvailable == 3

\* The margin ensure_room_for keeps free.
SafetyMargin == 1

\* Sizes of the files a run copies.
CopySizes == {1, 4}

\* The bytes that deleting set i frees: 1, 2, 1, ...
SetBytes(i) == IF i = 2 THEN 2 ELSE 1

\* The most recent of a non-empty collection of sets.
MostRecent(sets) == CHOOSE i \in sets : \A j \in sets : j <= i

\* The candidates for deletion: all sets except the most recent, which is
\* the hard-link base.
Candidates_KeepAnyOne(sets) == IF Cardinality(sets) > 1 THEN sets ELSE {}

Candidates_All(sets) == sets

Candidates(sets) == IF sets = {} THEN {} ELSE sets \ {MostRecent(sets)}

\* The set the run makes (step 3 of the orchestrator): it has the latest
\* name of all.
NewSet == MaxSets + 1
NoSet == 0

\* The sets under dest_root while the run with these previous sets fills
\* its new set.
ListBackupSets(sets, new) == IF new = NoSet THEN sets ELSE sets \cup {new}

\* The sets ensure_room_for may delete: the set being filled is set apart,
\* and of the others all but the most recent, the hard-link base.
Deletable_AllButBase(listing, new) ==
    IF listing \ {new} = {} THEN {}
    ELSE listing \ {MostRecent(listing \ {new})}

Deletable(listing, new) == Candidates(listing \ {new})

\* No run under way.
IdleSpace ==
    [pc |-> "idle", auto_delete |-> FALSE, sets |-> {}, base |-> 0,
     available |-> 0, need |-> 0, files |-> 0, deleted |-> {},
     new |-> NoSet, total |-> 0, manifest |-> FALSE]

(***************************************************************************)
(* Runs with a hash manifest (sections 4.E, 4.G and 4.H): a flat source of *)
(* regular files, each with a content and an mtime; sets in time order,    *)
(* each with its files (name -> inode), and its manifest text when the run *)
(* reached manifest-save; inodes holding a content and an mtime.  A copy   *)
(* keeps the mtime of the source, which is what lets the fast path fire on *)
(* the next run.                                                           *)
(***************************************************************************)
\* Runs with a manifest in one behaviour.
MaxManifestRuns == 3
\* Edits of the source, and of the files of a set, between those runs.
MaxSourceEdits == 1

\* The local names "b" and "a  b" (two spaces inside).
FileNames == {<<98>>, <<97, 32, 32, 98>>}

\* Contents: two of the same size and one longer.
FileContents == {"x", "y", "zz"}
ContentSize(c) == IF c = "zz" THEN 2 ELSE 1

Mtimes == {1, 2}

\* Hexadecimal digits of an MD5 in the manifest (32 in the program).
HexLen == 2

\* The hex MD5 of a content: distinct for distinct contents.
HexMd5(c) ==
    IF c = "x" THEN <<48, 97>> ELSE IF c = "y" THEN <<49, 98>> ELSE <<50, 99>>

\* No file of that name.
Absent == [exists |-> FALSE, content |-> "x", mtime |-> 1]
SourceFile(c, m) == [exists |-> TRUE, content |-> c, mtime |-> m]

\* No manifest in a set.
NoManifest == <<-1>>

\* One manifest line: hex md5, two spaces, relative path, newline.
ManifestLine_OneSpace(e) == e.hash \o <<32>> \o e.path \o <<10>>

ManifestLine(e) == e.hash \o <<32, 32>> \o e.path \o <<10>>

\* save: the lines of the entries in iteration order.
RECURSIVE SaveManifest(_)
SaveManifest(entries) ==
    IF entries = <<>> THEN <<>>
    ELSE ManifestLine(Head(entries)) \o SaveManifest(Tail(entries))

\* The lines of a text, each without its newline.
RECURSIVE SplitLines(_, _)
SplitLines(text, line) ==
    IF text = <<>> THEN (IF line = <<>> THEN <<>> ELSE <<line>>)
    ELSE IF Head(text) = 10 THEN <<line>> \o SplitLines(Tail(text), <<>>)
    ELSE SplitLines(Tail(text), Append(line, Head(text)))

\* A line parses when it has the hex digits, two spaces and a path.
LineParses(line) ==
    /\ Len(line) > HexLen + 2
    /\ line[HexLen + 1] = 32
    /\ line[HexLen + 2] = 32

ParseLine(line) ==
    [hash |-> SubSeq(line, 1, HexLen),
     path |-> SubSeq(line, HexLen + 3, Len(line))]

\* load: the entries of a manifest text; an unparseable line is fatal.
LoadManifest(text) ==
    LET lines == SplitLines(text, <<>>) IN
    IF \A i \in 1..Len(lines) : LineParses(lines[i])
    THEN [ok |-> TRUE, entries |-> [i \in 1..Len(lines) |-> ParseLine(lines[i])]]
    ELSE [ok |-> FALSE, entries |-> <<>>]

\* The name of the manifest file: disk-hog-backup-hashes.md5
ManifestFileName ==
    <<100, 105, 115, 107, 45, 104, 111, 103, 45, 98, 97, 99, 107, 117, 112,
      45, 104, 97, 115, 104, 101, 115, 46, 109, 100, 53>>

\* A lowercase hexadecimal digit.
HexDigit(d) == IF d < 10 THEN 48 + d ELSE 87 + d

\* The digest of a text, here a checksum of HexLen digits that depends on
\* every byte and on its position.
RECURSIVE Checksum(_, _)
Checksum(text, i) ==
    IF i > Len(text) THEN 0
    ELSE (text[i] * (2 * i + 1) + Checksum(text, i + 1)) % 256

TextMd5(text) ==
    LET c == Checksum(text, 1) IN <<HexDigit(c \div 16), HexDigit(c % 16)>>

\* No sidecar next to a manifest.
NoSidecar == <<-1>>

\* The sidecar: one line in the format of md5sum with the md5 of the
\* manifest file and its name.
SaveSidecar(text) == TextMd5(text) \o <<32, 32>> \o ManifestFileName \o <<10>>

\* The check of the sidecar, as md5sum -c does it; an absent sidecar is
\* not checked.
SidecarMatches(text, sidecar) ==
    \/ sidecar = NoSidecar
    \/ LET lines == SplitLines(sidecar, <<>>) IN
       /\ Len(lines) = 1
       /\ LineParses(lines[1])
       /\ ParseLine(lines[1]).path = ManifestFileName
       /\ ParseLine(lines[1]).hash = TextMd5(text)

\* load(path): fails on a sidecar that does not match and on a line that
\* does not parse.
Load_NoSidecarCheck(text, sidecar) == LoadManifest(text)

Load(text, sidecar) ==
    IF SidecarMatches(text, sidecar) THEN LoadManifest(text)
    ELSE [ok |-> FALSE, entries |-> <<>>]

\* The previous-file records of a loaded manifest: path -> hash.
HasRecord(entries, path) == \E i \in 1..Len(entries) : entries[i].path = path
RecordHash(entries, path) ==
    entries[CHOOSE i \in 1..Len(entries) : entries[i].path = path].hash

\* The streaming copy of one file as the walker sees it (section 4.F): with
\* a record and matching size and mtime, the fast path, returning the hash
\* of the record; otherwise the digest of the source, and a hard link when
\* it equals the hash of the record, a copy when not.
StreamingCopy_FastPathHashesSource(file, hasRecord, recordHash, prevFile) ==
    IF /\ hasRecord
       /\ ContentSize(prevFile.content) = ContentSize(file.content)
       /\ prevFile.mtime = file.mtime
    THEN [how |-> "fast", hardlinked |-> TRUE, hash |-> HexMd5(file.content)]
    ELSE LET digest == HexMd5(file.content) IN
         IF hasRecord /\ recordHash = digest
         THEN [how |-> "cancel", hardlinked |-> TRUE, hash |-> digest]
         ELSE [how |-> "copy", hardlinked |-> FALSE, hash |-> digest]

StreamingCopy(file, hasRecord, recordHash, prevFile) ==
    IF /\ hasRecord
       /\ ContentSize(prevFile.content) = ContentSize(file.content)
       /\ prevFile.mtime = file.mtime
    THEN [how |-> "fast", hardlinked |-> TRUE, hash |-> recordHash]
    ELSE LET digest == HexMd5(file.content) IN
         IF hasRecord /\ recordHash = digest
         THEN [how |-> "cancel", hardlinked |-> TRUE, hash |-> digest]
         ELSE [how |-> "copy", hardlinked |-> FALSE, hash |-> digest]

\* The walker collects (relative path, hash) into the in-memory manifest.
Collect_OnlyCopied(entries, path, result) ==
    IF result.hardlinked THEN entries
    ELSE Append(entries, [hash |-> result.hash, path |-> path])

Collect(entries, path, result) ==
    Append(entries, [hash |-> result.hash, path |-> path])

\* The directory copier over the files in walk order, from item i on: w
\* holds the files of the new set, the inodes, the entries collected and how
\* each file was handled; prev holds the files of the previous set and
\* records the entries of its manifest (none without a hard-link base).
RECURSIVE WalkFiles(_, _, _, _, _, _)
WalkFiles(w, source, order, i, prev, records) ==
    IF i > Len(order) THEN w
    ELSE LET path == order[i]
             file == source[path]
             hasRecord == HasRecord(records, path) /\ prev[path] # 0
             recordHash == IF hasRecord THEN RecordHash(records, path)
                           ELSE <<>>
             prevFile == IF hasRecord THEN w.inodes[prev[path]]
                         ELSE [content |-> "x", mtime |-> 0]
             result == StreamingCopy(file, hasRecord, recordHash, prevFile)
             linked == [w EXCEPT !.files[path] = prev[path]]
             copied == [w EXCEPT
                           !.inodes = Append(@, [content |-> file.content,
                                                 mtime |-> file.mtime]),
                           !.files[path] = Len(w.inodes) + 1]
             after == IF result.hardlinked THEN linked ELSE copied
         IN WalkFiles([after EXCEPT !.entries = Collect(@, path, result),
                                    !.how[path] = result.how],
                      source, order, i + 1, prev, records)

\* Entries handed to save: at most this many.
MaxManifestEntries == 2

\* Relative paths of entries: "b", "a  b" (two spaces inside), " b" (a
\* leading space) and "d/b".
EntryPaths == {<<98>>, <<97, 32, 32, 98>>, <<32, 98>>, <<100, 47, 98>>}

\* The valid ordered sequences of entries: a hex md5 and a relative path
\* each, no path twice.
ValidEntries ==
    {E \in UNION {[1..k -> [hash : {HexMd5(c) : c \in FileContents},
                            path : EntryPaths]] : k \in 0..MaxManifestEntries} :
        \A i, j \in 1..Len(E) : E[i].path = E[j].path => i = j}

\* Nothing loaded.
NotLoaded == [ok |-> FALSE, entries |-> <<>>]

\* Nothing run yet: no source file, no set.
NoFiles == [n \in FileNames |-> 0]
InitManifestRuns ==
    [source |-> [n \in FileNames |-> Absent], sets |-> <<>>, inodes |-> <<>>,
     runs |-> <<>>, edits |-> 0]

(***************************************************************************)
(* The reclamation loop of the Space Manager with its injected randomness  *)
(* (section 4.I): the sets of the destination in time order, each with the *)
(* day it was made and its size; the weight of a set from the gap in days  *)
(* to the set before it; a seeded generator of pseudo-random numbers.      *)
(***************************************************************************)
\* The days on which a set may have been made.
MaxDay == 4

\* The gap taken for the first set in time order ("a large constant").
FallbackGap == 6

\* Weights are kept as integers: the weight times WeightScale.
WeightScale == 36
DeletionExponent == 2

RECURSIVE Power(_, _)
Power(b, e) == IF e = 0 THEN 1 ELSE b * Power(b, e - 1)

\* calculate_deletion_weight: (1 / gap) ^ exponent.
calculate_deletion_weight(gap, e) == WeightScale \div Power(gap, e)

\* Gaps in days handed to calculate_deletion_weight, at most.
MaxGap == 10
\* Exponents: the default 2 and the two of test_exponent_affects_distribution.
Exponents == {1, 2, 3}

\* The sets on the given days, in time order.
RECURSIVE SetList(_)
SetList(days) ==
    IF days = {} THEN <<>>
    ELSE LET d == CHOOSE x \in days : \A y \in days : x <= y
         IN <<d>> \o SetList(days \ {d})

\* The bytes a deletion of the set of day d frees.
BytesOfDay(d) == IF d % 2 = 0 THEN 2 ELSE 1

\* The gap in days between item i of the list and the one before it.
GapBefore(list, i) == IF i = 1 THEN FallbackGap ELSE list[i] - list[i - 1]

\* The generator: a stream of numbers below RngModulus fixed by the seed.
RngModulus == 8
SeedFrom(seed) == seed % RngModulus
NextState(s) == (5 * s + 3) % RngModulus
\* gen_range(0..total) of the state.
GenRange(s, total) == (s * total) \div RngModulus

\* The candidates of a list: every item but the last, the most recent.
CandidateCount(list) == IF list = <<>> THEN 0 ELSE Len(list) - 1

RECURSIVE TotalWeight(_, _)
TotalWeight(list, k) ==
    IF k = 0 THEN 0
    ELSE TotalWeight(list, k - 1)
           + calculate_deletion_weight(GapBefore(list, k), DeletionExponent)

\* Weighted-random sampling: the first candidate whose cumulative weight
\* exceeds the number drawn.
SelectCandidate(list, r) ==
    CHOOSE k \in 1..CandidateCount(list) :
        /\ TotalWeight(list, k) > r
        /\ \A j \in 1..(k - 1) : TotalWeight(list, j) <= r

Executions == {1, 2}

IdleExecution ==
    [pc |-> "idle", rng |-> 0, list |-> <<>>, available |-> 0,
     deleted |-> <<>>]

IdleReclaim ==
    [started |-> FALSE, seed |-> 0, need |-> 0,
     exec |-> [x \in Executions |-> IdleExecution]]


(***************************************************************************)
(* Inputs.                                                                 *)
(***************************************************************************)
\* test_helpers.FixedTime values handed to Backup: baseDate + 1s, the same
\* second 7ns later, and baseDate + 1h.
BackupTimes ==
    {Time(2019, 12, 31, 23, 59, 1, 0), Time(2019, 12, 31, 23, 59, 1, 7),
     Time(2020, 1, 1, 0, 59, 0, 0)}

\* Times handed to CreateEmptySet in any order.
SetTimes ==
    BackupTimes \cup
    {Time(2019, 12, 31, 23, 59, 3, 0), Time(2019, 2, 3, 14, 5, 6, 0),
     Time(998, 7, 4, 0, 0, 9, 0), Time(10000, 1, 1, 0, 0, 0, 0)}

\* "this-is-not-a-backup-set"
NotABackupSet == <<116, 104, 105, 115, 45, 105, 115, 45, 110, 111, 116, 45, 97, 45, 98, 97, 99, 107, 117, 112, 45, 115, 101, 116>>
\* "-old"
OldSuffix == <<45, 111, 108, 100>>
\* "zz"
LastName == <<122, 122>>

\* Folders under the destination that are no sets; two of them sort after
\* every set name.
OtherNames ==
    {NotABackupSet, GenerateName(Time(2020, 1, 1, 0, 59, 0, 0)) \o OldSuffix,
     LastName}

\* Times handed to GenerateName.
TimeInputs ==
    {Time(y, mo, d, h, mi, sec, ns) :
        y \in {0, 7, 998, 2001, 9999}, mo \in {2, 12}, d \in {3, 31},
        h \in {0, 14}, mi \in {5, 59}, sec \in {6, 58}, ns \in {0, 7}}

\* s with its i-th byte replaced by c, and with its i-th byte removed.
ReplaceAt(s, i, c) == [s EXCEPT ![i] = c]
RemoveAt(s, i) == SubSeq(s, 1, i - 1) \o SubSeq(s, i + 1, Len(s))

\* Texts handed to IsBackupSetName: set names, and set names with a suffix,
\* with a prefix, with one byte replaced (by the bytes next to the digits,
\* a letter, a capital, a dash) or removed, with another prefix, and the
\* empty text.
TextInputs ==
    LET bases == {GenerateName(Time(1998, 12, 31, 9, 59, 58, 0)),
                  GenerateName(Time(2001, 2, 3, 14, 5, 6, 7))}
        affixes == {<<56>>, <<10>>, <<120>>, OldSuffix, <<110, 111, 116, 45, 97, 45>>}
        bytes == {45, 47, 48, 58, 68, 120}
    IN bases
       \cup {b \o a : b \in bases, a \in affixes}
       \cup {a \o b : b \in bases, a \in affixes}
       \cup {ReplaceAt(b, i, c) : b \in bases, i \in 1..23, c \in bytes}
       \cup {RemoveAt(b, i) : b \in bases, i \in 1..23}
       \cup {<<>>, prefix, NotABackupSet, <<115, 111, 109, 101, 116, 104, 105, 110, 103, 45, 101, 108, 115, 101, 45, 49, 57, 57, 56, 49, 50, 51, 49, 45, 48, 57, 53, 57, 53, 56>>}

NoCall == [fn |-> "none", t |-> Time(0, 0, 0, 0, 0, 0, 0), s |-> <<>>,
           name |-> <<>>, match |-> FALSE,
           entries |-> <<>>, manifest |-> NoManifest, sidecar |-> NoSidecar,
           loaded |-> NotLoaded,
           gap_old |-> 0, gap_recent |-> 0, exponent |-> 0,
           weight_old |-> 0, weight_recent |-> 0]

(***************************************************************************)
(* Initial state: an empty source folder, no destination folder.           *)
(***************************************************************************)
Init ==
    /\ src = EmptySrc
    /\ destExists = FALSE
    /\ dest = [n \in {} |-> EmptyTree]
    /\ inodes = <<>>
    /\ runs = <<>>
    /\ edits = 0
    /\ created = {}
    /\ call = NoCall
    /\ global_memory = 0
    /\ pipes = [f \in Files |-> IdlePipe]
    /\ copy = IdleCopy
    /\ space = IdleSpace
    /\ mf = InitManifestRuns
    /\ reclaim = IdleReclaim

(***************************************************************************)
(* The user edits the source tree between runs.                            *)
(***************************************************************************)
\* ioutil.WriteFile(p, d): creates the file or replaces its bytes.
WriteFile(p, d) ==
    /\ edits < MaxEdits
    /\ ParentIsDir(src, p)
    /\ src[p].kind \notin {"dir", "symlink"}
    /\ src[p].readable
    /\ src[p] # SrcFile(d)
    /\ src' = [src EXCEPT ![p] = SrcFile(d)]
    /\ edits' = edits + 1
    /\ UNCHANGED <<destExists, dest, inodes, runs, created, call, global_memory, pipes, copy, space, mf, reclaim>>

\* os.Mkdir(p)
MkdirSrc(p) ==
    /\ edits < MaxEdits
    /\ ParentIsDir(src, p)
    /\ src[p].kind = "none"
    /\ src' = [src EXCEPT ![p] = SrcDir]
    /\ edits' = edits + 1
    /\ UNCHANGED <<destExists, dest, inodes, runs, created, call, global_memory, pipes, copy, space, mf, reclaim>>

\* os.Chmod(p, 0) of a file: it can no longer be opened.
Chmod(p) ==
    /\ edits < MaxEdits
    /\ src[p].kind = "file"
    /\ src[p].readable
    /\ src' = [src EXCEPT ![p].readable = FALSE]
    /\ edits' = edits + 1
    /\ UNCHANGED <<destExists, dest, inodes, runs, created, call, global_memory, pipes, copy, space, mf, reclaim>>

\* os.RemoveAll(p): p and everything below it.
RemoveAll(p) ==
    /\ edits < MaxEdits
    /\ src[p].kind # "none"
    /\ src' = [q \in Paths |-> IF Under(q, p) THEN NoSrcEntry ELSE src[q]]
    /\ edits' = edits + 1
    /\ UNCHANGED <<destExists, dest, inodes, runs, created, call, global_memory, pipes, copy, space, mf, reclaim>>

(***************************************************************************)
(* backup.Backup(source, dest, getTime), getTime returning t.  The run is  *)
(* recorded with the name it made, the set it found, how it ended, whether *)
(* the error of HardLinkCopy was dropped, the file system as HardLinkCopy   *)
(* left it, and the source it read.                                        *)
(***************************************************************************)
Backup(t) ==
    /\ Len(runs) < MaxRuns
    /\ LET lastSet == FindLatestSet(dest, TRUE)
           setName == GenerateName(t)
           fs0 == FS(MkdirAllRoot(dest, setName), inodes, "ok")
           fs1 == IF lastSet.name # <<>>
                  THEN HardLinkCopy(fs0, lastSet.name, <<>>, setName, <<>>)
                  ELSE fs0
           fs2 == IF fs1.status = "fatal" THEN fs1
                  ELSE CopyFolder([fs1 EXCEPT !.status = "ok"],
                                  src, <<>>, setName, <<>>)
       IN /\ destExists' = TRUE
          /\ dest' = fs2.dest
          /\ inodes' = fs2.inodes
          /\ created' = created \cup {t}
          /\ runs' = Append(runs, [t |-> t, name |-> setName,
                                   last |-> lastSet.name,
                                   status |-> fs2.status,
                                   linkErr |-> fs1.status = "err",
                                   linked |-> fs1,
                                   src |-> src])
    /\ UNCHANGED <<src, edits, call, global_memory, pipes, copy, space, mf, reclaim>>

Next ==
    \/ \E p \in Paths, d \in Contents : WriteFile(p, d)
    \/ \E p \in Paths : MkdirSrc(p)
    \/ \E p \in Paths : RemoveAll(p)
    \/ \E p \in Paths : Chmod(p)
    \/ \E t \in BackupTimes : Backup(t)

Spec == Init /\ [][Next]_vars

(***************************************************************************)
(* The same with symbolic links in the source.                             *)
(***************************************************************************)
\* os.Symlink(q, p): p becomes a link to the path q, which may name a
\* file, a directory, another link or nothing.
Symlink(p, q) ==
    /\ edits < MaxEdits
    /\ ParentIsDir(src, p)
    /\ src[p].kind = "none"
    /\ p # q
    /\ src' = [src EXCEPT ![p] = SrcLink(q)]
    /\ edits' = edits + 1
    /\ UNCHANGED <<destExists, dest, inodes, runs, created, call, global_memory, pipes, copy, space, mf, reclaim>>

NextLinks ==
    \/ Next
    \/ \E p \in Paths, q \in Paths : Symlink(p, q)

SpecLinks == Init /\ [][NextLinks]_vars

(***************************************************************************)
(* Set discovery on its own: folders are made directly under the           *)
(* destination, sets by CreateEmptySet at any time in any order.           *)
(***************************************************************************)
\* test_helpers.CreateTmpFolder: the destination folder itself.
MkdirDest ==
    /\ ~destExists
    /\ destExists' = TRUE
    /\ UNCHANGED <<src, dest, inodes, runs, edits, created, call, global_memory, pipes, copy, space, mf, reclaim>>

\* backup_sets.CreateEmptySet(dest, getTime), getTime returning t.
CreateEmptySet(t) ==
    /\ Cardinality(DOMAIN dest) < MaxEntries
    /\ destExists' = TRUE
    /\ dest' = MkdirAllRoot(dest, GenerateName(t))
    /\ created' = created \cup {t}
    /\ UNCHANGED <<src, inodes, runs, edits, call, global_memory, pipes, copy, space, mf, reclaim>>

\* os.MkdirAll(dest/n) of a folder that is no set.
MkdirOther(n) ==
    /\ Cardinality(DOMAIN dest) < MaxEntries
    /\ n \notin DOMAIN dest
    /\ destExists' = TRUE
    /\ dest' = MkdirAllRoot(dest, n)
    /\ UNCHANGED <<src, inodes, runs, edits, created, call, global_memory, pipes, copy, space, mf, reclaim>>

NextSets ==
    \/ MkdirDest
    \/ \E t \in SetTimes : CreateEmptySet(t)
    \/ \E n \in OtherNames : MkdirOther(n)

SpecSets == Init /\ [][NextSets]_vars

(***************************************************************************)
(* The naming functions on their own.                                      *)
(***************************************************************************)
CallGenerateName(t) ==
    /\ call' = [NoCall EXCEPT !.fn = "GenerateName", !.t = t,
                              !.name = GenerateName(t)]
    /\ UNCHANGED <<src, destExists, dest, inodes, runs, edits, created, global_memory, pipes, copy, space, mf, reclaim>>

CallIsBackupSetName(s) ==
    /\ call' = [NoCall EXCEPT !.fn = "IsBackupSetName", !.s = s,
                              !.match = IsBackupSetName(s)]
    /\ UNCHANGED <<src, destExists, dest, inodes, runs, edits, created, global_memory, pipes, copy, space, mf, reclaim>>

NextNames ==
    \/ \E t \in TimeInputs : CallGenerateName(t)
    \/ \E s \in TextInputs : CallIsBackupSetName(s)

SpecNames == Init /\ [][NextNames]_vars

(***************************************************************************)
(* process_file(src, dst, expected_md5, global_memory): the channels and   *)
(* the cancel flag are made and the reader and writer threads spawned.     *)
(***************************************************************************)
backupVars == <<src, destExists, dest, inodes, runs, edits, created, call>>

process_file(f, size, expected) ==
    /\ pipes[f].state = "idle"
    /\ pipes' = [pipes EXCEPT ![f] =
                    [IdlePipe EXCEPT !.state = "running", !.size = size,
                                     !.expected = expected,
                                     !.rpc = "read", !.wpc = "create",
                                     !.txOpen = TRUE, !.rxOpen = TRUE]]
    /\ UNCHANGED <<global_memory, backupVars, copy, space, mf, reclaim>>

(***************************************************************************)
(* stream_file, one step per access to the file, the counter, the channel  *)
(* or the flag.                                                            *)
(***************************************************************************)
\* file.read: EOF or a read error leave the loop; otherwise the bytes are
\* copied into the chunk and fed to the hasher.
ReaderRead(f, fails) ==
    LET p == pipes[f]
        n == IF p.size - p.pos < CHUNK_SIZE THEN p.size - p.pos ELSE CHUNK_SIZE
    IN /\ p.rpc = "read"
       /\ pipes' = [pipes EXCEPT ![f] =
                       IF fails
                       THEN [p EXCEPT !.rpc = "final", !.io_error = TRUE]
                       ELSE IF n = 0 THEN [p EXCEPT !.rpc = "final"]
                       ELSE [p EXCEPT !.rpc = "wait", !.bytes_read = n,
                                      !.pos = @ + n, !.hashed = @ + n,
                                      !.read = Append(@, p.pos),
                                      !.consumed = Append(@, p.pos)]]
       /\ UNCHANGED <<global_memory, backupVars, copy, space, mf, reclaim>>

\* The while loop on the counter: the thread sleeps and loads again until
\* the chunk fits under the cap.
ReaderWait(f) ==
    LET p == pipes[f] IN
    /\ p.rpc = "wait"
    /\ ~(global_memory + p.bytes_read > GLOBAL_MAX_BUFFER)
    /\ pipes' = [pipes EXCEPT ![f].rpc = "add"]
    /\ UNCHANGED <<global_memory, backupVars, copy, space, mf, reclaim>>

\* global_memory.fetch_add(bytes_read)
ReaderAdd(f) ==
    LET p == pipes[f] IN
    /\ p.rpc = "add"
    /\ global_memory' = global_memory + p.bytes_read
    /\ pipes' = [pipes EXCEPT ![f].rpc = "send",
                              ![f].inflight = @ + p.bytes_read]
    /\ UNCHANGED <<backupVars, copy, space, mf, reclaim>>

\* data_tx.send(chunk): waits while the channel is full; with the receiver
\* dropped the send fails and expect panics, which drops both senders.
ReaderSend_Unbounded(f) ==
    LET p == pipes[f] IN
    /\ p.rpc = "send"
    /\ pipes' = [pipes EXCEPT ![f] =
                    IF ~p.rxOpen
                    THEN [p EXCEPT !.rpc = "panic", !.txOpen = FALSE]
                    ELSE [p EXCEPT !.rpc = "read",
                                   !.chan = Append(@, Chunk(p.pos - p.bytes_read,
                                                           p.bytes_read))]]
    /\ UNCHANGED <<global_memory, backupVars, copy, space, mf, reclaim>>

ReaderSend(f) ==
    LET p == pipes[f] IN
    /\ p.rpc = "send"
    /\ \/ ~p.rxOpen
       \/ Len(p.chan) < MAX_QUEUE_CHUNKS
    /\ pipes' = [pipes EXCEPT ![f] =
                    IF ~p.rxOpen
                    THEN [p EXCEPT !.rpc = "panic", !.txOpen = FALSE]
                    ELSE [p EXCEPT !.rpc = "read",
                                   !.chan = Append(@, Chunk(p.pos - p.bytes_read,
                                                           p.bytes_read))]]
    /\ UNCHANGED <<global_memory, backupVars, copy, space, mf, reclaim>>

\* hasher.compute, the comparison with expected_md5 and the store to the
\* cancel flag when they match.
ReaderCompare(f) ==
    LET p == pipes[f]
        matches == p.expected # NoMd5 /\ Md5("now", p.hashed) = p.expected
    IN /\ p.rpc = "final"
       /\ pipes' = [pipes EXCEPT ![f] =
                       [p EXCEPT !.rpc = "md5",
                                 !.cancel_flag = IF matches THEN TRUE ELSE @]]
       /\ UNCHANGED <<global_memory, backupVars, copy, space, mf, reclaim>>

\* md5_tx.send((matches, digest)) and the return, which drops data_tx.
ReaderReturn(f) ==
    LET p == pipes[f]
        final_md5 == Md5("now", p.hashed)
    IN /\ p.rpc = "md5"
       /\ pipes' = [pipes EXCEPT ![f] =
                       [p EXCEPT !.rpc = "done", !.txOpen = FALSE,
                                 !.md5 = <<[matches |-> p.expected # NoMd5
                                                        /\ final_md5 = p.expected,
                                            digest |-> final_md5]>>]]
       /\ UNCHANGED <<global_memory, backupVars, copy, space, mf, reclaim>>

(***************************************************************************)
(* write_file, one step per access to the file, the channel, the flag or   *)
(* the counter.                                                            *)
(***************************************************************************)
\* File::create(dst_path)
WriterCreate(f) ==
    /\ pipes[f].wpc = "create"
    /\ pipes' = [pipes EXCEPT ![f].wpc = "recv", ![f].dst = 0]
    /\ UNCHANGED <<global_memory, backupVars, copy, space, mf, reclaim>>

\* data_rx.iter(): the next chunk, or the end of the loop once the channel
\* is empty and the sender dropped.
WriterRecv_Peek(f) ==
    LET p == pipes[f] IN
    /\ p.wpc = "recv"
    /\ \/ p.chan # <<>>
       \/ ~p.txOpen
    /\ pipes' = [pipes EXCEPT ![f] =
                    IF p.chan # <<>>
                    THEN [p EXCEPT !.wpc = "check", !.chunk = Head(p.chan)]
                    ELSE [p EXCEPT !.wpc = "after"]]
    /\ UNCHANGED <<global_memory, backupVars, copy, space, mf, reclaim>>

WriterRecv(f) ==
    LET p == pipes[f] IN
    /\ p.wpc = "recv"
    /\ \/ p.chan # <<>>
       \/ ~p.txOpen
    /\ pipes' = [pipes EXCEPT ![f] =
                    IF p.chan # <<>>
                    THEN [p EXCEPT !.wpc = "check", !.chunk = Head(p.chan),
                                   !.chan = Tail(@)]
                    ELSE [p EXCEPT !.wpc = "after"]]
    /\ UNCHANGED <<global_memory, backupVars, copy, space, mf, reclaim>>

\* if cancel_flag.load() { break }
WriterCheck(f) ==
    LET p == pipes[f] IN
    /\ p.wpc = "check"
    /\ pipes' = [pipes EXCEPT ![f].wpc = IF p.cancel_flag THEN "after"
                                         ELSE "write"]
    /\ UNCHANGED <<global_memory, backupVars, copy, space, mf, reclaim>>

\* file.write_all(&chunk): an error leaves the loop.
WriterWrite(f, fails) ==
    LET p == pipes[f] IN
    /\ p.wpc = "write"
    /\ pipes' = [pipes EXCEPT ![f] =
                    IF fails THEN [p EXCEPT !.wpc = "after", !.io_error = TRUE]
                    ELSE [p EXCEPT !.wpc = "sub", !.dst = @ + p.chunk.len,
                                   !.written = Append(@, p.chunk.off)]]
    /\ UNCHANGED <<global_memory, backupVars, copy, space, mf, reclaim>>

\* global_memory.fetch_sub(chunk.len())
WriterSub(f) ==
    LET p == pipes[f] IN
    /\ p.wpc = "sub"
    /\ global_memory' = global_memory - p.chunk.len
    /\ pipes' = [pipes EXCEPT ![f].wpc = "recv", ![f].chunk = NoChunk,
                              ![f].inflight = @ - p.chunk.len]
    /\ UNCHANGED <<backupVars, copy, space, mf, reclaim>>

\* After the loop: the file is removed when the flag is set; the return
\* drops data_rx.
WriterReturn(f) ==
    LET p == pipes[f] IN
    /\ p.wpc = "after"
    /\ pipes' = [pipes EXCEPT ![f] =
                    [p EXCEPT !.wpc = "done", !.rxOpen = FALSE,
                              !.dst = IF p.cancel_flag THEN NoFile ELSE @]]
    /\ UNCHANGED <<global_memory, backupVars, copy, space, mf, reclaim>>

\* process_file joins the reader, then the writer, then receives the
\* digest; the unwrap of a panicked reader's join panics.
ProcessJoin(f) ==
    LET p == pipes[f] IN
    /\ p.state = "running"
    /\ \/ p.rpc = "panic"
       \/ p.rpc = "done" /\ p.wpc = "done"
    /\ pipes' = [pipes EXCEPT ![f] =
                    IF p.rpc = "panic" THEN [p EXCEPT !.state = "panicked"]
                    ELSE [p EXCEPT !.state = "returned", !.md5 = <<>>]]
    /\ UNCHANGED <<global_memory, backupVars, copy, space, mf, reclaim>>

NextPipe ==
    \/ \E f \in Files, size \in FileSizes :
          \E expected \in ExpectedMd5s(size) : process_file(f, size, expected)
    \/ \E f \in Files, fails \in BOOLEAN : ReaderRead(f, fails)
    \/ \E f \in Files : ReaderWait(f)
    \/ \E f \in Files : ReaderAdd(f)
    \/ \E f \in Files : ReaderSend(f)
    \/ \E f \in Files : ReaderCompare(f)
    \/ \E f \in Files : ReaderReturn(f)
    \/ \E f \in Files : WriterCreate(f)
    \/ \E f \in Files : WriterRecv(f)
    \/ \E f \in Files : WriterCheck(f)
    \/ \E f \in Files, fails \in BOOLEAN : WriterWrite(f, fails)
    \/ \E f \in Files : WriterSub(f)
    \/ \E f \in Files : WriterReturn(f)
    \/ \E f \in Files : ProcessJoin(f)

SpecPipe == Init /\ [][NextPipe]_vars

\* The threads of one file.
ReaderStep(f) ==
    \/ \E fails \in BOOLEAN : ReaderRead(f, fails)
    \/ ReaderWait(f)
    \/ ReaderAdd(f)
    \/ ReaderSend(f)
    \/ ReaderCompare(f)
    \/ ReaderReturn(f)

WriterStep(f) ==
    \/ WriterCreate(f)
    \/ WriterRecv(f)
    \/ WriterCheck(f)
    \/ \E fails \in BOOLEAN : WriterWrite(f, fails)
    \/ WriterSub(f)
    \/ WriterReturn(f)

(***************************************************************************)
(* The streaming copy of one file (section 4.F).                           *)
(***************************************************************************)
\* The copy is invoked with a source of a size and an optional
\* previous-file record.  Fast path: with a record whose size and mtime
\* match, the previous file is hard-linked to the destination and the hash
\* of the record returned, without reading.  Otherwise the three tasks are
\* spawned.
StartCopy_ChecksSpaceFirst(size, prev) ==
    /\ copy.state = "idle"
    /\ copy' = IF prev.exists /\ prev.sameSizeMtime
               THEN [IdleCopy EXCEPT !.state = "returned", !.size = size,
                                     !.prev = prev, !.dst = "prev",
                                     !.consulted = TRUE,
                                     !.hardlinked = TRUE, !.hash = prev.hash]
               ELSE [IdleCopy EXCEPT !.state = "running", !.size = size,
                                     !.prev = prev, !.rpc = "read",
                                     !.consulted = TRUE,
                                     !.hpc = "recv", !.wpc = "create"]
    /\ UNCHANGED <<backupVars, pipes, global_memory, space, mf, reclaim>>

StartCopy(size, prev) ==
    /\ copy.state = "idle"
    /\ copy' = IF prev.exists /\ prev.sameSizeMtime
               THEN [IdleCopy EXCEPT !.state = "returned", !.size = size,
                                     !.prev = prev, !.dst = "prev",
                                     !.hardlinked = TRUE, !.hash = prev.hash]
               ELSE [IdleCopy EXCEPT !.state = "running", !.size = size,
                                     !.prev = prev, !.rpc = "read",
                                     !.consulted = TRUE,
                                     !.hpc = "recv", !.wpc = "create"]
    /\ UNCHANGED <<backupVars, pipes, global_memory, space, mf, reclaim>>

\* Reader: read up to one chunk; 0 bytes is the end of the stream, which
\* closes both channels.
RdRead ==
    LET n == IF copy.size - copy.pos < CHUNK_SIZE THEN copy.size - copy.pos
             ELSE CHUNK_SIZE
    IN /\ copy.rpc = "read"
       /\ copy' = IF n = 0 THEN [copy EXCEPT !.rpc = "done", !.closed = TRUE]
                  ELSE [copy EXCEPT !.rpc = "reserve", !.n = n, !.pos = @ + n]
       /\ UNCHANGED <<backupVars, pipes, global_memory, space, mf, reclaim>>

\* Reader: reserve(n) waits until G + n <= G_MAX, then adds n.
RdReserve ==
    /\ copy.rpc = "reserve"
    /\ global_memory + copy.n <= GLOBAL_MAX_BUFFER
    /\ global_memory' = global_memory + copy.n
    /\ copy' = [copy EXCEPT !.rpc = "sendWriter", !.reserved = @ + copy.n]
    /\ UNCHANGED <<backupVars, pipes, space, mf, reclaim>>

\* Reader: the bounded send onto the writer-channel.
RdSendWriter ==
    /\ copy.rpc = "sendWriter"
    /\ Len(copy.wchan) < MAX_QUEUE_CHUNKS
    /\ copy' = [copy EXCEPT !.rpc = "sendHasher", !.wchan = Append(@, copy.n)]
    /\ UNCHANGED <<backupVars, pipes, global_memory, space, mf, reclaim>>

\* Reader: the bounded send onto the hasher-channel.
RdSendHasher ==
    /\ copy.rpc = "sendHasher"
    /\ Len(copy.hchan) < MAX_QUEUE_CHUNKS
    /\ copy' = [copy EXCEPT !.rpc = "read", !.hchan = Append(@, copy.n)]
    /\ UNCHANGED <<backupVars, pipes, global_memory, space, mf, reclaim>>

\* Hasher: a chunk is fed into the MD5 state; when the channel is closed
\* and empty the digest goes onto the md5-channel.
HsRecv_EmitsOnEmpty ==
    /\ copy.hpc = "recv"
    /\ copy' = IF copy.hchan # <<>>
               THEN [copy EXCEPT !.hashed = @ + Head(copy.hchan),
                                 !.hchan = Tail(@)]
               ELSE [copy EXCEPT !.hpc = "done",
                                 !.md5chan = <<Md5("now", copy.hashed)>>]
    /\ UNCHANGED <<backupVars, pipes, global_memory, space, mf, reclaim>>

HsRecv ==
    /\ copy.hpc = "recv"
    /\ \/ copy.hchan # <<>>
       \/ copy.closed
    /\ copy' = IF copy.hchan # <<>>
               THEN [copy EXCEPT !.hashed = @ + Head(copy.hchan),
                                 !.hchan = Tail(@)]
               ELSE [copy EXCEPT !.hpc = "done",
                                 !.md5chan = <<Md5("now", copy.hashed)>>]
    /\ UNCHANGED <<backupVars, pipes, global_memory, space, mf, reclaim>>

\* Writer: the destination file is created.
WrCreate ==
    /\ copy.wpc = "create"
    /\ copy' = [copy EXCEPT !.wpc = "recv", !.dst = "new"]
    /\ UNCHANGED <<backupVars, pipes, global_memory, space, mf, reclaim>>

\* Writer: the next chunk; at the end of the stream the writer checks the
\* flag and removes the file it wrote when CancelWrite is set.
WrRecv ==
    /\ copy.wpc = "recv"
    /\ \/ copy.wchan # <<>>
       \/ copy.closed
    /\ copy' = IF copy.wchan # <<>>
               THEN [copy EXCEPT !.wpc = "observe", !.held = Head(copy.wchan),
                                 !.wchan = Tail(@)]
               ELSE [copy EXCEPT !.wpc = "done",
                                 !.dst = IF copy.flag \in {"CancelWrite", "Abort"}
                                         THEN "none" ELSE @]
    /\ UNCHANGED <<backupVars, pipes, global_memory, space, mf, reclaim>>

\* Writer, before each write: on CancelWrite it stops writing, closes and
\* deletes the partially written file, and goes on to drain the channel;
\* on Abort it drains and removes the partial destination as well.
WrObserve ==
    /\ copy.wpc = "observe"
    /\ copy' = IF copy.flag \in {"CancelWrite", "Abort"}
               THEN [copy EXCEPT !.wpc = "skip", !.dst = "none"]
               ELSE [copy EXCEPT !.wpc = "write"]
    /\ UNCHANGED <<backupVars, pipes, global_memory, space, mf, reclaim>>

\* Writer: the chunk is written.
WrWrite ==
    /\ copy.wpc = "write"
    /\ copy' = [copy EXCEPT !.wpc = "release", !.written = @ + copy.held]
    /\ UNCHANGED <<backupVars, pipes, global_memory, space, mf, reclaim>>

\* Writer: release(n) of a written chunk.
WrRelease ==
    /\ copy.wpc = "release"
    /\ global_memory' = global_memory - copy.held
    /\ copy' = [copy EXCEPT !.wpc = "recv", !.held = 0]
    /\ UNCHANGED <<backupVars, pipes, space, mf, reclaim>>

\* Writer, draining: release(n) of a skipped chunk.
WrSkip ==
    /\ copy.wpc = "skip"
    /\ global_memory' = global_memory - copy.held
    /\ copy' = [copy EXCEPT !.wpc = "drain", !.held = 0]
    /\ UNCHANGED <<backupVars, pipes, space, mf, reclaim>>

\* Writer, draining: the next chunk to skip, or the end of the stream.
WrDrain ==
    /\ copy.wpc = "drain"
    /\ \/ copy.wchan # <<>>
       \/ copy.closed
    /\ copy' = IF copy.wchan # <<>>
               THEN [copy EXCEPT !.wpc = "skip", !.held = Head(copy.wchan),
                                 !.wchan = Tail(@)]
               ELSE [copy EXCEPT !.wpc = "done"]
    /\ UNCHANGED <<backupVars, pipes, global_memory, space, mf, reclaim>>

\* Orchestrator: awaits the digest; with a previous-file record whose hash
\* equals it, sets the flag to CancelWrite.  A flag that a failed read or
\* write has set to Abort stays Abort: the failure came first.
OrAwaitDigest_OverridesAbort ==
    /\ copy.state = "running"
    /\ copy.md5chan # <<>>
    /\ LET digest == Head(copy.md5chan)
           match == copy.prev.exists /\ copy.prev.hash = digest
       IN
       copy' = [copy EXCEPT
                   !.state = "joining", !.md5chan = <<>>, !.hash = digest,
                   !.flag = IF match THEN "CancelWrite" ELSE @,
                   !.writerDoneAtCancel = match /\ copy.wpc = "done"]
    /\ UNCHANGED <<backupVars, pipes, global_memory, space, mf, reclaim>>

OrAwaitDigest ==
    /\ copy.state = "running"
    /\ copy.md5chan # <<>>
    /\ LET digest == Head(copy.md5chan)
           match == /\ copy.flag # "Abort"
                    /\ copy.prev.exists /\ copy.prev.hash = digest
       IN
       copy' = [copy EXCEPT
                   !.state = "joining", !.md5chan = <<>>, !.hash = digest,
                   !.flag = IF match THEN "CancelWrite" ELSE @,
                   !.writerDoneAtCancel = match /\ copy.wpc = "done"]
    /\ UNCHANGED <<backupVars, pipes, global_memory, space, mf, reclaim>>

\* hard_link(prev_path, dst_path): fails when the destination exists.
HardLink(dst) == IF dst = "none" THEN "prev" ELSE dst

\* The destination is removed if it still exists.
RemoveIfExists(dst) == "none"

\* Orchestrator: joins the three tasks; if CancelWrite fired, removes the
\* destination if it still exists and hard-links from the previous file.
\* Returns (hardlinked, hash), or the failure of the file when the flag is
\* Abort.
OrJoin_NoRemove ==
    /\ copy.state = "joining"
    /\ copy.rpc = "done" /\ copy.hpc = "done" /\ copy.wpc = "done"
    /\ copy' = IF copy.flag = "CancelWrite"
               THEN [copy EXCEPT !.state = "returned",
                                 !.dst = HardLink(copy.dst),
                                 !.hardlinked = HardLink(copy.dst) = "prev"]
               ELSE [copy EXCEPT !.state = "returned",
                                 !.failed = copy.flag = "Abort"]
    /\ UNCHANGED <<backupVars, pipes, global_memory, space, mf, reclaim>>

OrJoin ==
    /\ copy.state = "joining"
    /\ copy.rpc = "done" /\ copy.hpc = "done" /\ copy.wpc = "done"
    /\ copy' = IF copy.flag = "CancelWrite"
               THEN [copy EXCEPT !.state = "returned",
                                 !.dst = HardLink(RemoveIfExists(copy.dst)),
                                 !.hardlinked =
                                     HardLink(RemoveIfExists(copy.dst)) = "prev"]
               ELSE [copy EXCEPT !.state = "returned",
                                 !.failed = copy.flag = "Abort"]
    /\ UNCHANGED <<backupVars, pipes, global_memory, space, mf, reclaim>>

NextCopy ==
    \/ \E size \in FileSizes : \E prev \in PrevRecords(size) :
          StartCopy(size, prev)
    \/ RdRead
    \/ RdReserve
    \/ RdSendWriter
    \/ RdSendHasher
    \/ HsRecv
    \/ WrCreate
    \/ WrRecv
    \/ WrObserve
    \/ WrWrite
    \/ WrRelease
    \/ WrSkip
    \/ WrDrain
    \/ OrAwaitDigest
    \/ OrJoin

SpecCopy == Init /\ [][NextCopy]_vars

(***************************************************************************)
(* The streaming copy of one file with reads and writes that fail          *)
(* (section 4.F, tie-breaks and edge cases).                               *)
(***************************************************************************)
\* Reader: a read fails; the reader sets the flag to Abort and exits, which
\* closes both channels.
RdReadFails ==
    /\ copy.rpc = "read"
    /\ copy.pos < copy.size
    /\ copy' = [copy EXCEPT !.rpc = "done", !.closed = TRUE, !.rerr = TRUE,
                            !.flag = IF @ = "Running" THEN "Abort" ELSE @]
    /\ UNCHANGED <<backupVars, pipes, global_memory, space, mf, reclaim>>

\* Reader: with the flag at Abort it exits early, releasing the chunk it
\* has reserved and not yet sent to the writer.
RdAbort ==
    /\ copy.rpc \in {"read", "reserve", "sendWriter", "sendHasher"}
    /\ copy.flag = "Abort"
    /\ global_memory' = IF copy.rpc = "sendWriter"
                        THEN global_memory - copy.n ELSE global_memory
    /\ copy' = [copy EXCEPT !.rpc = "done", !.closed = TRUE]
    /\ UNCHANGED <<backupVars, pipes, space, mf, reclaim>>

\* Writer: a write fails; the writer sets the flag to Abort unless the
\* match was found before, removes the partial destination and drains.
WrWriteFails ==
    /\ copy.wpc = "write"
    /\ copy' = [copy EXCEPT !.wpc = "skip", !.dst = "none",
                            !.werr = IF copy.flag = "CancelWrite" THEN "late"
                                     ELSE "first",
                            !.flag = IF @ = "Running" THEN "Abort" ELSE @]
    /\ UNCHANGED <<backupVars, pipes, global_memory, space, mf, reclaim>>

NextCopyIO ==
    \/ NextCopy
    \/ RdReadFails
    \/ RdAbort
    \/ WrWriteFails

SpecCopyIO == Init /\ [][NextCopyIO]_vars

(***************************************************************************)
(* A run with the Space Manager (sections 4.H and 4.I).                    *)
(***************************************************************************)
otherVars == <<backupVars, pipes, global_memory, copy, mf, reclaim>>

\* The orchestrator finds the previous sets, the latest of which is the
\* hard-link base, makes the new set and configures the Space Manager.
StartRun(auto, sets, available, total) ==
    /\ space.pc = "idle"
    /\ space' = [IdleSpace EXCEPT !.pc = "walk", !.auto_delete = auto,
                                  !.new = NewSet, !.total = total,
                                  !.sets = sets, !.available = available,
                                  !.base = IF sets = {} THEN 0
                                           ELSE MostRecent(sets)]
    /\ UNCHANGED otherVars

\* ensure_room_for(n_bytes, dest_root), before the destination of a file
\* is opened: returns at once with room for the bytes and the margin;
\* otherwise fails with auto_delete disabled, and reclaims with it enabled.
EnsureRoomFor_AlwaysReclaim(n) ==
    /\ space.pc = "walk"
    /\ space.files < space.total
    /\ space' = [space EXCEPT
                    !.need = n,
                    !.pc = IF space.available >= n + SafetyMargin THEN "copy"
                           ELSE "reclaim"]
    /\ UNCHANGED otherVars

EnsureRoomFor_StrictlyMore(n) ==
    /\ space.pc = "walk"
    /\ space.files < space.total
    /\ space' = [space EXCEPT
                    !.need = n,
                    !.pc = IF space.available > n + SafetyMargin THEN "copy"
                           ELSE IF ~space.auto_delete THEN "failed"
                           ELSE "reclaim"]
    /\ UNCHANGED otherVars

EnsureRoomFor(n) ==
    /\ space.pc = "walk"
    /\ space.files < space.total
    /\ space' = [space EXCEPT
                    !.need = n,
                    !.pc = IF space.available >= n + SafetyMargin THEN "copy"
                           ELSE IF ~space.auto_delete THEN "failed"
                           ELSE "reclaim"]
    /\ UNCHANGED otherVars

\* Reclaiming: one candidate, drawn by weighted-random sampling (every
\* candidate has a positive weight, so any of them can be drawn), is
\* deleted as a whole and the available bytes are checked again.
DeleteSet_OnceThenCopy(c) ==
    /\ space.pc = "reclaim"
    /\ c \in Deletable(ListBackupSets(space.sets, space.new), space.new)
    /\ space' = [space EXCEPT
                    !.sets = @ \ {c},
                    !.new = IF c = space.new THEN NoSet ELSE @,
                    !.deleted = @ \cup {c},
                    !.available = @ + SetBytes(c),
                    !.pc = "copy"]
    /\ UNCHANGED otherVars

DeleteSet(c) ==
    /\ space.pc = "reclaim"
    /\ c \in Deletable(ListBackupSets(space.sets, space.new), space.new)
    /\ space' = [space EXCEPT
                    !.sets = @ \ {c},
                    !.new = IF c = space.new THEN NoSet ELSE @,
                    !.deleted = @ \cup {c},
                    !.available = @ + SetBytes(c),
                    !.pc = IF space.available + SetBytes(c)
                                >= space.need + SafetyMargin
                           THEN "copy" ELSE "reclaim"]
    /\ UNCHANGED otherVars

\* Reclaiming with no candidate left: ensure_room_for fails, the run stops
\* with OutOfSpace and the partial set stays without a manifest.
ReclaimExhausted_RemovesNewSet ==
    /\ space.pc = "reclaim"
    /\ Deletable(ListBackupSets(space.sets, space.new), space.new) = {}
    /\ space' = [space EXCEPT !.pc = "failed", !.new = NoSet]
    /\ UNCHANGED otherVars

ReclaimExhausted ==
    /\ space.pc = "reclaim"
    /\ Deletable(ListBackupSets(space.sets, space.new), space.new) = {}
    /\ space' = [space EXCEPT !.pc = "failed"]
    /\ UNCHANGED otherVars

\* The file is copied into the new set.
CopyWithRoom ==
    /\ space.pc = "copy"
    /\ space' = [space EXCEPT !.pc = "walk", !.files = @ + 1,
                              !.available = @ - space.need]
    /\ UNCHANGED otherVars

\* The walk is over: the manifest of the new set is written (step 6).
FinishRun ==
    /\ space.pc = "walk"
    /\ space.files = space.total
    /\ space' = [space EXCEPT !.pc = "done", !.manifest = TRUE]
    /\ UNCHANGED otherVars

NextSpace ==
    \/ \E auto \in BOOLEAN, sets \in SUBSET (1..MaxSets),
          available \in 0..MaxAvailable, total \in 0..MaxFiles :
           StartRun(auto, sets, available, total)
    \/ \E n \in CopySizes : EnsureRoomFor(n)
    \/ \E c \in 1..NewSet : DeleteSet(c)
    \/ ReclaimExhausted
    \/ CopyWithRoom
    \/ FinishRun

SpecSpace == Init /\ [][NextSpace]_vars

\* ensure_room_for is a synchronous call: once in its loop it goes on
\* deleting and checking until it returns.
FairSpecSpace ==
    /\ SpecSpace
    /\ WF_vars(\E c \in 1..NewSet : DeleteSet(c))
    /\ WF_vars(ReclaimExhausted)

(***************************************************************************)
(* Runs with a manifest: edits of the source, runs that reach              *)
(* manifest-save and runs that crash before it.                            *)
(***************************************************************************)
restVars == <<backupVars, pipes, global_memory, copy, space, reclaim>>

\* The source as the first run finds it: any files of any content and mtime.
SourceStates == [FileNames -> {Absent} \cup
                    {SourceFile(c, m) : c \in FileContents, m \in Mtimes}]

SourceFound(s) ==
    /\ mf = InitManifestRuns
    /\ s # InitManifestRuns.source
    /\ mf' = [mf EXCEPT !.source = s]
    /\ UNCHANGED restVars

\* A file of the source is written: a content and an mtime (a writer may
\* keep the mtime, as a restore from an archive does).
WriteSource(n, c, m) ==
    /\ mf.edits < MaxSourceEdits
    /\ mf.source[n] # SourceFile(c, m)
    /\ mf' = [mf EXCEPT !.source[n] = SourceFile(c, m), !.edits = @ + 1]
    /\ UNCHANGED restVars

\* A file of the source is removed.
RemoveSource(n) ==
    /\ mf.edits < MaxSourceEdits
    /\ mf.source[n].exists
    /\ mf' = [mf EXCEPT !.source[n] = Absent, !.edits = @ + 1]
    /\ UNCHANGED restVars

\* Step 2 of the orchestrator: the latest set when it has a manifest, 0 (no
\* hard-link base) when there is no set or the latest has no manifest.
HardLinkBase(sets) ==
    IF sets = <<>> THEN 0
    ELSE IF sets[Len(sets)].manifest # NoManifest THEN Len(sets)
    ELSE 0

\* The walk order: ascending byte order of the local names.
WalkOrder(source) == SortText({n \in FileNames : source[n].exists})

\* Steps 2 to 5 of the orchestrator over the first k files of the walk.  A
\* manifest that fails to load (ManifestCorrupt) is treated as no previous
\* manifest: no records and no hard-link base for this run.
Walked(k) ==
    LET latest == HardLinkBase(mf.sets)
        loaded == IF latest = 0 THEN [ok |-> TRUE, entries |-> <<>>]
                  ELSE Load(mf.sets[latest].manifest, mf.sets[latest].sidecar)
        base == IF loaded.ok THEN latest ELSE 0
        prev == IF base = 0 THEN NoFiles ELSE mf.sets[base].files
        w0 == [files |-> NoFiles, inodes |-> mf.inodes, entries |-> <<>>,
               how |-> [n \in FileNames |-> "none"]]
    IN [base |-> base, ok |-> loaded.ok,
        w |-> WalkFiles(w0, mf.source, SubSeq(WalkOrder(mf.source), 1, k),
                        1, prev, loaded.entries)]

\* A run that reaches manifest-save: the manifest is written last, then
\* its sidecar.
RunBackup ==
    /\ Len(mf.runs) < MaxManifestRuns
    /\ LET r == Walked(Len(WalkOrder(mf.source))) IN
       mf' = [mf EXCEPT
                 !.inodes = r.w.inodes,
                 !.sets = Append(@, [files |-> r.w.files,
                              manifest |-> SaveManifest(r.w.entries),
                              sidecar |-> SaveSidecar(SaveManifest(r.w.entries)),
                              intact |-> TRUE]),
                 !.runs = Append(@,
                     [source |-> mf.source, set |-> Len(mf.sets) + 1,
                      base |-> r.base, saved |-> TRUE, loaded |-> r.ok,
                      entries |-> r.w.entries, how |-> r.w.how])]
    /\ UNCHANGED restVars

\* A run that crashes after its first file (or before, when the source has
\* none): the set stays without a manifest.
RunCrashes ==
    /\ Len(mf.runs) < MaxManifestRuns
    /\ LET order == WalkOrder(mf.source)
           r == Walked(IF order = <<>> THEN 0 ELSE 1)
       IN mf' = [mf EXCEPT
                    !.inodes = r.w.inodes,
                    !.sets = Append(@, [files |-> r.w.files,
                                        manifest |-> NoManifest,
                                        sidecar |-> NoSidecar,
                                        intact |-> TRUE]),
                    !.runs = Append(@,
                        [source |-> mf.source, set |-> Len(mf.sets) + 1,
                         base |-> r.base, saved |-> FALSE, loaded |-> r.ok,
                         entries |-> r.w.entries, how |-> r.w.how])]
    /\ UNCHANGED restVars

NextManifest ==
    \/ \E s \in SourceStates : SourceFound(s)
    \/ \E n \in FileNames, c \in FileContents, m \in Mtimes :
           WriteSource(n, c, m)
    \/ \E n \in FileNames : RemoveSource(n)
    \/ RunBackup
    \/ RunCrashes

SpecManifest == Init /\ [][NextManifest]_vars

(***************************************************************************)
(* Runs with a manifest, and damage to the manifest or the sidecar of the  *)
(* latest set between runs (ManifestCorrupt, section 6).                   *)
(***************************************************************************)
\* The ways the files of a set are damaged: a digit of the first hash
\* changes, a separator of the first line is lost, the text is cut short
\* in the middle of a line, the sidecar is overwritten with another hash.
Damages == {"digit", "separator", "truncated", "sidecar"}

Damaged(set, kind) ==
    IF kind = "digit"
    THEN [set EXCEPT !.manifest =
             ReplaceAt(@, 1, IF @[1] = 102 THEN 101 ELSE 102)]
    ELSE IF kind = "separator"
    THEN [set EXCEPT !.manifest = ReplaceAt(@, HexLen + 1, 95)]
    ELSE IF kind = "truncated"
    THEN [set EXCEPT !.manifest = SubSeq(@, 1, HexLen + 1)]
    ELSE [set EXCEPT !.sidecar = ReplaceAt(@, 1, IF @[1] = 102 THEN 101 ELSE 102)]

\* The manifest or the sidecar of the latest set is damaged on disk; this
\* counts as one of the edits between runs.
DamageManifest(kind) ==
    /\ mf.sets # <<>>
    /\ mf.edits < MaxSourceEdits
    /\ LET set == mf.sets[Len(mf.sets)] IN
       /\ set.intact
       /\ set.manifest # NoManifest
       /\ set.manifest # <<>>
       /\ mf' = [mf EXCEPT !.sets[Len(mf.sets)] =
                     [Damaged(set, kind) EXCEPT !.intact = FALSE],
                              !.edits = @ + 1]
    /\ UNCHANGED restVars

NextManifestCorrupt ==
    \/ \E s \in SourceStates : SourceFound(s)
    \/ \E n \in FileNames, c \in FileContents, m \in Mtimes :
           WriteSource(n, c, m)
    \/ RunBackup
    \/ \E kind \in Damages : DamageManifest(kind)

SpecManifestCorrupt == Init /\ [][NextManifestCorrupt]_vars

(***************************************************************************)
(* save and load of the manifest on their own (section 4.E).               *)
(***************************************************************************)
\* save(path, entries): the manifest, then the sidecar.
CallSave(E) ==
    /\ call' = [NoCall EXCEPT !.fn = "save", !.entries = E,
                              !.manifest = SaveManifest(E),
                              !.sidecar = SaveSidecar(SaveManifest(E))]
    /\ UNCHANGED <<src, destExists, dest, inodes, runs, edits, created, global_memory, pipes, copy, space, mf, reclaim>>

\* load(path) of the manifest that save has written.
CallLoad ==
    /\ call.fn = "save"
    /\ call' = [call EXCEPT !.fn = "load",
                            !.loaded = Load(call.manifest, call.sidecar)]
    /\ UNCHANGED <<src, destExists, dest, inodes, runs, edits, created, global_memory, pipes, copy, space, mf, reclaim>>

NextSaveLoad ==
    \/ \E E \in ValidEntries : CallSave(E)
    \/ CallLoad

SpecSaveLoad == Init /\ [][NextSaveLoad]_vars

(***************************************************************************)
(* calculate_deletion_weight on its own, called as test_weight_calculation *)
(* calls it: for the gap before an old set and the gap before a recent     *)
(* one.                                                                    *)
(***************************************************************************)
CallWeights(gap_old, gap_recent, e) ==
    /\ call' = [NoCall EXCEPT
                   !.fn = "calculate_deletion_weight",
                   !.gap_old = gap_old, !.gap_recent = gap_recent,
                   !.exponent = e,
                   !.weight_old = calculate_deletion_weight(gap_old, e),
                   !.weight_recent = calculate_deletion_weight(gap_recent, e)]
    /\ UNCHANGED <<src, destExists, dest, inodes, runs, edits, created, global_memory, pipes, copy, space, mf, reclaim>>

NextWeights ==
    \E gap_old \in 1..MaxGap, gap_recent \in 1..MaxGap, e \in Exponents :
        CallWeights(gap_old, gap_recent, e)

SpecWeights == Init /\ [][NextWeights]_vars

(***************************************************************************)
(* Two executions of the reclamation loop on the same destination, with    *)
(* the same seed, the same list of sets (hence the same weights) and the   *)
(* same bytes asked for; each has its own generator.                       *)
(***************************************************************************)
reclaimRest == <<backupVars, pipes, global_memory, copy, space, mf>>

StartReclaim(seed, days, need, available) ==
    /\ ~reclaim.started
    /\ reclaim' = [started |-> TRUE, seed |-> seed, need |-> need,
                   exec |-> [x \in Executions |->
                       [pc |-> "check", rng |-> SeedFrom(seed),
                        list |-> SetList(days), available |-> available,
                        deleted |-> <<>>]]]
    /\ UNCHANGED reclaimRest

\* One turn of the loop of execution x: with room, success; with no
\* candidate, failure; otherwise one candidate is drawn with the generator
\* of the execution and deleted, and the loop checks again.
RemoveItem(list, k) == SubSeq(list, 1, k - 1) \o SubSeq(list, k + 1, Len(list))

ReclaimTurn_SharedGenerator(x) ==
    LET e == reclaim.exec[x] IN
    /\ e.pc = "check"
    /\ IF e.available >= reclaim.need + SafetyMargin
       THEN reclaim' = [reclaim EXCEPT !.exec[x].pc = "ok"]
       ELSE IF CandidateCount(e.list) = 0
       THEN reclaim' = [reclaim EXCEPT !.exec[x].pc = "failed"]
       ELSE LET shared == reclaim.exec[1].rng
                r == GenRange(shared,
                              TotalWeight(e.list, CandidateCount(e.list)))
                k == SelectCandidate(e.list, r)
            IN reclaim' = [reclaim EXCEPT
                   !.exec = [[@ EXCEPT ![1].rng = NextState(shared)] EXCEPT
                       ![x].list = RemoveItem(e.list, k),
                       ![x].deleted = Append(e.deleted, e.list[k]),
                       ![x].available = e.available + BytesOfDay(e.list[k])]]
    /\ UNCHANGED reclaimRest

ReclaimTurn(x) ==
    LET e == reclaim.exec[x] IN
    /\ e.pc = "check"
    /\ IF e.available >= reclaim.need + SafetyMargin
       THEN reclaim' = [reclaim EXCEPT !.exec[x].pc = "ok"]
       ELSE IF CandidateCount(e.list) = 0
       THEN reclaim' = [reclaim EXCEPT !.exec[x].pc = "failed"]
       ELSE LET r == GenRange(e.rng,
                              TotalWeight(e.list, CandidateCount(e.list)))
                k == SelectCandidate(e.list, r)
            IN reclaim' = [reclaim EXCEPT
                   !.exec[x].rng = NextState(e.rng),
                   !.exec[x].list = RemoveItem(e.list, k),
                   !.exec[x].deleted = Append(e.deleted, e.list[k]),
                   !.exec[x].available = e.available + BytesOfDay(e.list[k])]
    /\ UNCHANGED reclaimRest

NextReclaim ==
    \/ \E seed \in 0..(RngModulus - 1), days \in SUBSET (1..MaxDay),
          need \in CopySizes, available \in 0..MaxAvailable :
           StartReclaim(seed, days, need, available)
    \/ \E x \in Executions : ReclaimTurn(x)

SpecReclaim == Init /\ [][NextReclaim]_vars

(***************************************************************************)
(* Observations used by the properties.                                    *)
(***************************************************************************)
\* os.SameFile of two entries of the destination: one inode.
SameFile(e1, e2) == e1.kind = "file" /\ e2.kind = "file" /\ e1.ino = e2.ino

\* The bytes of file p of folder n of the destination, in a given state of
\* the destination and the inodes.
Bytes(d, ino, n, p) == ino[d[n][p].ino]

SetNames(d) == {n \in DOMAIN d : IsBackupSetName(n)}

(***************************************************************************)
(* C1: after two successive Backup runs that made two different sets from  *)
(* the same, unmodified source tree (subdirectories allowed), both runs    *)
(* have returned without error and every regular file of the second set is *)
(* the same inode as the file at that path in the first set.               *)
(***************************************************************************)
C1_SecondRunHardLinks ==
    Len(runs) >= 2 =>
        LET r1 == runs[Len(runs) - 1]
            r2 == runs[Len(runs)]
        IN (r1.name # r2.name /\ r1.src = r2.src) =>
              /\ r1.status = "ok"
              /\ r2.status = "ok"
              /\ \A p \in Paths :
                    dest[r2.name][p].kind = "file" =>
                        SameFile(dest[r1.name][p], dest[r2.name][p])

(***************************************************************************)
(* C2: a Backup run leaves the bytes of every regular file of every folder *)
(* that was under the destination before the run as they were.             *)
(***************************************************************************)
C2_PriorSetsUnchanged ==
    [][Len(runs') > Len(runs) =>
          \A n \in DOMAIN dest : \A p \in Paths :
              dest[n][p].kind = "file" =>
                  /\ dest'[n][p].kind = "file"
                  /\ Bytes(dest', inodes', n, p) = Bytes(dest, inodes, n, p)]_vars

(***************************************************************************)
(* C3: when the bytes of a source file differ between two successive runs  *)
(* that made two different sets and returned, the file of the second set   *)
(* is not the inode of the file of the first set and holds the new bytes.  *)
(***************************************************************************)
C3_ChangedFileNotLinked ==
    Len(runs) >= 2 =>
        LET r1 == runs[Len(runs) - 1]
            r2 == runs[Len(runs)]
        IN \A p \in Paths :
              ( /\ r1.name # r2.name
                /\ r1.status = "ok" /\ r2.status = "ok"
                /\ r1.src[p].kind = "file" /\ r2.src[p].kind = "file"
                /\ r1.src[p].data # r2.src[p].data ) =>
                  /\ dest[r2.name][p].kind = "file"
                  /\ ~SameFile(dest[r1.name][p], dest[r2.name][p])
                  /\ Bytes(dest, inodes, r2.name, p) = r2.src[p].data

(***************************************************************************)
(* C4: after a Backup run that made a new set and returned, the set has an *)
(* entry at a path only if the source had one there when the run read it.  *)
(***************************************************************************)
C4_SetMirrorsSource ==
    Len(runs) >= 1 =>
        LET r == runs[Len(runs)] IN
        ( /\ r.status = "ok"
          /\ \A i \in 1..(Len(runs) - 1) : runs[i].name # r.name ) =>
            \A p \in Paths :
                dest[r.name][p].kind # "none" => r.src[p].kind # "none"

(***************************************************************************)
(* C5: every Backup run names its set GenerateName of its time, that set   *)
(* folder did not exist before the run and exists after it, and the run    *)
(* changes no entry of a folder that was under the destination before.     *)
(***************************************************************************)
C5_FreshSetEachRun ==
    [][Len(runs') > Len(runs) =>
          LET r == runs'[Len(runs')] IN
          /\ r.name = GenerateName(r.t)
          /\ r.name \notin DOMAIN dest
          /\ r.name \in DOMAIN dest'
          /\ \A n \in DOMAIN dest : dest'[n] = dest[n]]_vars

(***************************************************************************)
(* C6: once the destination exists, FindLatestSet returns no error and the *)
(* lexicographically greatest of the entry names that IsBackupSetName      *)
(* accepts, or the empty name when there is none.                          *)
(***************************************************************************)
C6_FindLatestSetIsGreatest ==
    destExists =>
        LET r == FindLatestSet(dest, destExists)
            S == SetNames(dest)
        IN /\ ~r.err
           /\ IF S = {} THEN r.name = <<>>
              ELSE /\ r.name \in S
                   /\ \A n \in S : n = r.name \/ LexLess(n, r.name)

\* Three sets and a folder that sorts after all of them.
C6_Witness ==
    /\ destExists
    /\ Cardinality(SetNames(dest)) >= 3
    /\ LET r == FindLatestSet(dest, destExists) IN
       /\ r.name \in SetNames(dest)
       /\ \E o \in DOMAIN dest : o \notin SetNames(dest) /\ LexLess(r.name, o)

(***************************************************************************)
(* C7: IsBackupSetName(s) is true exactly when s is "dhb-set-", 8 decimal  *)
(* digits, "-", 6 decimal digits, and nothing else.                        *)
(***************************************************************************)
SetNameShape(s) ==
    /\ Len(s) = 23
    /\ SubSeq(s, 1, 8) = <<100, 104, 98, 45, 115, 101, 116, 45>>
    /\ \A i \in 9..16 : s[i] >= 48 /\ s[i] <= 57
    /\ s[17] = 45
    /\ \A i \in 18..23 : s[i] >= 48 /\ s[i] <= 57

\* C7: the result of IsBackupSetName is true exactly on texts of that shape.
C7_IsBackupSetNameExact ==
    call.fn = "IsBackupSetName" => (call.match <=> SetNameShape(call.s))

\* A set name followed by one more digit is refused.
C7_Witness ==
    /\ call.fn = "IsBackupSetName"
    /\ Len(call.s) = 24
    /\ SetNameShape(SubSeq(call.s, 1, 23))
    /\ call.s[24] = 56
    /\ ~call.match

(***************************************************************************)
(* C8: for a time with a year in 0..9999, GenerateName is "dhb-set-", the  *)
(* year in 4 digits, month and day in 2 digits each, "-", hour, minute and *)
(* second in 2 digits each; the nanoseconds do not appear.                 *)
(***************************************************************************)
\* The decimal digit of n at 10^k (k = 0 for the units).
DigitAt(n, k) == 48 + ((n \div (10 ^ k)) % 10)

ExpectedName(t) ==
    <<100, 104, 98, 45, 115, 101, 116, 45,
      DigitAt(t.year, 3), DigitAt(t.year, 2), DigitAt(t.year, 1), DigitAt(t.year, 0),
      DigitAt(t.month, 1), DigitAt(t.month, 0),
      DigitAt(t.day, 1), DigitAt(t.day, 0),
      45,
      DigitAt(t.hour, 1), DigitAt(t.hour, 0),
      DigitAt(t.minute, 1), DigitAt(t.minute, 0),
      DigitAt(t.second, 1), DigitAt(t.second, 0)>>

\* C8: for a year in 0..9999 the name is the expected 23 bytes, whatever
\* the nanoseconds.
C8_GenerateNameFormat ==
    (call.fn = "GenerateName" /\ call.t.year \in 0..9999) =>
        call.name = ExpectedName(call.t)

\* A one-digit year, month, day, hour, minute and second, and nanoseconds.
C8_Witness ==
    /\ call.fn = "GenerateName"
    /\ call.t = Time(7, 2, 3, 0, 5, 6, 7)
    /\ call.name = ExpectedName(Time(7, 2, 3, 0, 5, 6, 0))

(***************************************************************************)
(* C9: names sort as their times do, so FindLatestSet returns the name of  *)
(* the chronologically latest set.  As claimed, for any times; as amended, *)
(* for times with a year in 0..9999.                                       *)
(***************************************************************************)
\* The time truncated to the second.
TruncSecond(t) == [t EXCEPT !.nsec = 0]

\* t1 is an earlier instant than t2, both in the same fixed-offset location.
Before(t1, t2) ==
    LET a == <<t1.year, t1.month, t1.day, t1.hour, t1.minute, t1.second, t1.nsec>>
        b == <<t2.year, t2.month, t2.day, t2.hour, t2.minute, t2.second, t2.nsec>>
    IN \E i \in 1..7 : a[i] < b[i] /\ \A j \in 1..(i - 1) : a[j] = b[j]

\* A latest of the times at which sets were created.
LatestCreated ==
    CHOOSE t \in created :
        \A u \in created : ~Before(TruncSecond(t), TruncSecond(u))

NamesSortAsTimes ==
    /\ \A t1, t2 \in created :
          Before(TruncSecond(t1), TruncSecond(t2)) =>
              LexLess(GenerateName(t1), GenerateName(t2))
    /\ created # {} =>
          FindLatestSet(dest, destExists).name = GenerateName(LatestCreated)

\* C9 as claimed: for the sets made at any times, names sort as times do
\* and FindLatestSet returns the name of the latest.
C9_AnyYear == NamesSortAsTimes

\* C9 as amended: the same when every set was made in a year in 0..9999.
C9_Year0To9999 ==
    (\A t \in created : t.year \in 0..9999) => NamesSortAsTimes

\* Sets made at three times of which two share a year, one a clock second
\* of another, and a three-digit year among them.
C9_Witness ==
    /\ \A t \in created : t.year \in 0..9999
    /\ Cardinality(created) >= 3
    /\ \E t \in created : t.year < 1000
    /\ \E t1, t2 \in created : t1 # t2 /\ TruncSecond(t1) = TruncSecond(t2)
    /\ FindLatestSet(dest, destExists).name = GenerateName(LatestCreated)

(***************************************************************************)
(* C10: after a Backup run whose CopyFolder returned, every regular file   *)
(* of the source tree it read, at any depth, is a file at the same path of *)
(* the set with the same bytes.                                            *)
(***************************************************************************)
C10_CopyFolderCopiesFiles ==
    Len(runs) >= 1 =>
        LET r == runs[Len(runs)] IN
        r.status = "ok" =>
            \A p \in Paths :
                r.src[p].kind = "file" =>
                    /\ dest[r.name][p].kind = "file"
                    /\ Bytes(dest, inodes, r.name, p) = r.src[p].data

\* A file three folders deep was copied.
C10_Witness ==
    /\ Len(runs) >= 1
    /\ LET r == runs[Len(runs)] IN
       /\ r.status = "ok"
       /\ r.src[<<2, 1, 1>>].kind = "file"
       /\ dest[r.name][<<2, 1, 1>>].kind = "file"
       /\ Bytes(dest, inodes, r.name, <<2, 1, 1>>) = r.src[<<2, 1, 1>>].data

(***************************************************************************)
(* C11: after a Backup run whose CopyFolder returned, every directory of   *)
(* the source tree it read is a directory at the same path of the set, and *)
(* a source directory without entries has no entries in the set.           *)
(***************************************************************************)
\* The folder p of a tree has no entries.
IsEmptyDir(tree, p) ==
    /\ tree[p].kind = "dir"
    /\ \A q \in Paths : (Len(q) = Len(p) + 1 /\ Parent(q) = p) => tree[q].kind = "none"

\* C11: every source directory exists in the copy, and an empty source
\* directory is empty in the copy.
C11_CopyFolderCopiesDirs ==
    Len(runs) >= 1 =>
        LET r == runs[Len(runs)] IN
        r.status = "ok" =>
            \A p \in Paths :
                r.src[p].kind = "dir" =>
                    /\ dest[r.name][p].kind = "dir"
                    /\ IsEmptyDir(r.src, p) => IsEmptyDir(dest[r.name], p)

\* An empty folder inside a folder was copied and is empty.
C11_Witness ==
    /\ Len(runs) >= 1
    /\ LET r == runs[Len(runs)] IN
       /\ r.status = "ok"
       /\ IsEmptyDir(r.src, <<2, 1>>)
       /\ IsEmptyDir(dest[r.name], <<2, 1>>)

(***************************************************************************)
(* C12: after HardLinkCopy(previous set, new set) returned nil, every      *)
(* regular file of the previous set, at any depth, has at the same path of *)
(* the new set an entry that is the same file (the same inode), and every  *)
(* directory of the previous set is a directory of the new set.            *)
(***************************************************************************)
C12_HardLinkCopyLinksAll ==
    Len(runs) >= 1 =>
        LET r == runs[Len(runs)] IN
        (r.last # <<>> /\ r.linked.status = "ok") =>
            \A p \in Paths :
                LET from == r.linked.dest[r.last][p]
                    to == r.linked.dest[r.name][p]
                IN /\ from.kind = "file" => SameFile(from, to)
                   /\ from.kind = "dir" => to.kind = "dir"

\* A file three folders deep of the previous set was linked into a new set.
C12_Witness ==
    /\ Len(runs) >= 2
    /\ LET r == runs[Len(runs)] IN
       /\ r.last # <<>>
       /\ r.last # r.name
       /\ r.linked.status = "ok"
       /\ r.linked.dest[r.name][<<2, 1>>].kind = "dir"
       /\ SameFile(r.linked.dest[r.last][<<2, 1, 1>>],
                   r.linked.dest[r.name][<<2, 1, 1>>])

(***************************************************************************)
(* C13: once every pipeline that was started has completed (process_file   *)
(* returned or panicked; normally, after a cancelled write or after a      *)
(* writer I/O error), global_memory is back at the value it had before the *)
(* first of them started, 0: every fetch_add of the reader was matched by  *)
(* one fetch_sub.                                                          *)
(***************************************************************************)
C13_CounterRestored ==
    (\A f \in Files : pipes[f].state \in {"idle", "returned", "panicked"}) =>
        global_memory = 0

(***************************************************************************)
(* C14: with one pipeline or several running concurrently on the same      *)
(* counter, global_memory never exceeds GLOBAL_MAX_BUFFER.                 *)
(***************************************************************************)
C14_GlobalCap == global_memory <= GLOBAL_MAX_BUFFER

C17_BaseNeverDeleted ==
    (space.pc # "idle" /\ space.base # 0) =>
        /\ space.base \in space.sets
        /\ space.base \notin space.deleted

\* Two of three sets were deleted in one run and the base is still there.
C17_Witness ==
    /\ Cardinality(space.deleted) >= 2
    /\ space.base = 3
    /\ space.sets = {3}

(***************************************************************************)
(* C20: with auto_delete disabled no step of a run deletes a set; when the *)
(* available bytes are less than the bytes of the file and the safety      *)
(* margin, ensure_room_for fails, the run stops there, and every set that  *)
(* existed before the call still exists.                                   *)
(***************************************************************************)
C20_NoDeleteWithoutAutoDelete ==
    [][(space.pc # "idle" /\ ~space.auto_delete) =>
          /\ space'.sets = space.sets
          /\ (/\ space.pc = "walk"
              /\ space'.pc # "done"
              /\ space.available < space'.need + SafetyMargin)
                 => space'.pc = "failed"
          /\ space.pc = "failed" => space' = space]_vars

\* A run without auto_delete stopped for lack of space after copying one
\* file, with all three sets still there.
C20_Witness ==
    /\ space.pc = "failed"
    /\ ~space.auto_delete
    /\ space.files = 1
    /\ space.sets = 1..3
    /\ space.deleted = {}

\* The content of the file at a path of a set.
ContentAt(set, path) == mf.inodes[set.files[path]].content

(***************************************************************************)
(* C18: for every run that reached manifest-save, every entry of the       *)
(* manifest of its set names a regular file that exists in the set at that *)
(* relative path and whose content has the recorded MD5; this includes the *)
(* entries of the fast path, whose hash is the one of the previous record. *)
(***************************************************************************)
C18_ManifestMatchesSet ==
    \A i \in 1..Len(mf.runs) :
        mf.runs[i].saved =>
            LET set == mf.sets[mf.runs[i].set]
                loaded == LoadManifest(set.manifest)
            IN /\ loaded.ok
               /\ \A j \in 1..Len(loaded.entries) :
                     LET e == loaded.entries[j] IN
                     /\ e.path \in FileNames
                     /\ set.files[e.path] # 0
                     /\ HexMd5(ContentAt(set, e.path)) = e.hash

\* A saved run took the fast path for a file whose content in the source
\* had changed since the previous set, at the same size and mtime.
C18_Witness ==
    \E i \in 1..Len(mf.runs) : \E n \in FileNames :
        /\ mf.runs[i].saved
        /\ mf.runs[i].how[n] = "fast"
        /\ mf.runs[i].source[n].content # ContentAt(mf.sets[mf.runs[i].set], n)

(***************************************************************************)
(* C19: two consecutive runs that reached manifest-save over an unchanged  *)
(* source have byte-identical manifests, whichever way the second handled  *)
(* each file (fast path or CancelWrite).                                   *)
(***************************************************************************)
C19_UnchangedSourceSameManifest ==
    \A i \in 1..(Len(mf.runs) - 1) :
        LET r1 == mf.runs[i]
            r2 == mf.runs[i + 1]
        IN (r1.saved /\ r2.saved /\ r1.source = r2.source) =>
              mf.sets[r1.set].manifest = mf.sets[r2.set].manifest

\* The second of the two runs took the fast path for one file and the
\* CancelWrite path for another (whose mtime the first run had found
\* changed, so that the set holds a link to an older inode).
C19_Witness ==
    \E i \in 1..(Len(mf.runs) - 1) :
        LET r1 == mf.runs[i]
            r2 == mf.runs[i + 1]
        IN /\ r1.saved /\ r2.saved /\ r1.source = r2.source
           /\ \E n \in FileNames : r2.how[n] = "fast"
           /\ \E n \in FileNames : r2.how[n] = "cancel"
           /\ Len(mf.sets[r2.set].manifest) > 0

IsPrefix(a, b) == Len(a) <= Len(b) /\ SubSeq(b, 1, Len(a)) = a

C22_PipelineTerminates ==
    (\E f \in Files : pipes[f].state = "running") =>
        \E g \in Files :
            ENABLED (ReaderStep(g) \/ WriterStep(g) \/ ProcessJoin(g))

\* The offsets of the chunks of a file of the given size, in order.
RECURSIVE ChunkOffsets(_, _)
ChunkOffsets(size, off) ==
    IF off >= size THEN <<>>
    ELSE <<off>> \o ChunkOffsets(size, off + CHUNK_SIZE)

C24_NewSetNeverDeleted ==
    space.pc # "idle" =>
        /\ space.new = NewSet
        /\ NewSet \in ListBackupSets(space.sets, space.new)
        /\ NewSet \notin space.deleted
        /\ NewSet \notin
               Deletable(ListBackupSets(space.sets, space.new), space.new)

\* ensure_room_for has deleted every set it may and the run goes on with
\* its new set and the base.
C24_Witness ==
    /\ space.pc \in {"copy", "walk", "done"}
    /\ Cardinality(space.deleted) >= 2
    /\ ListBackupSets(space.sets, space.new) = {space.base, NewSet}

(***************************************************************************)
(* C25: the manifest of a set is written only after every file copy of the *)
(* run has finished; a run that stops with a fatal error during the walk   *)
(* leaves its set on disk, without a manifest.                             *)
(***************************************************************************)
C25_ManifestWrittenLast ==
    /\ space.manifest => (space.pc = "done" /\ space.files = space.total)
    /\ space.pc = "failed" =>
          /\ ~space.manifest
          /\ space.new = NewSet
          /\ NewSet \in ListBackupSets(space.sets, space.new)

\* A run stopped by OutOfSpace after one file of two, after deleting what
\* it could.
C25_Witness ==
    /\ space.pc = "failed"
    /\ space.files = 1
    /\ space.total = 2
    /\ space.deleted # {}

(***************************************************************************)
(* C26: when the latest existing set has no manifest, the next run uses no *)
(* hard-link base: no file of the new set is a hard link into that set.    *)
(* Backup writes no manifest, so no set under the destination has one.     *)
(***************************************************************************)
C26_NoBaseWithoutManifest ==
    Len(runs) >= 1 =>
        LET r == runs[Len(runs)] IN
        (r.last # <<>> /\ r.last # r.name) =>
            \A p \in Paths, q \in Paths :
                dest[r.name][p].kind = "file" =>
                    ~SameFile(dest[r.last][q], dest[r.name][p])

(***************************************************************************)
(* C28: when a hard link from the previous set cannot be made for a file,  *)
(* the run reports the failure: it does not return as a run in which       *)
(* nothing went wrong.                                                     *)
(***************************************************************************)
C28_LinkFailureReported ==
    \A i \in 1..Len(runs) : runs[i].linkErr => runs[i].status # "ok"

(***************************************************************************)
(* C29: a source file that cannot be opened is a failure of that file      *)
(* only: the run is not stopped and the other entries are still copied     *)
(* into the set.  Stated for a run that found no previous set.             *)
(***************************************************************************)
C29_OpenFailureSkipsFile ==
    Len(runs) >= 1 =>
        LET r == runs[Len(runs)] IN
        r.last = <<>> =>
            /\ r.status # "fatal"
            /\ \A p \in Paths :
                  (r.src[p].kind = "file" /\ r.src[p].readable) =>
                      /\ dest[r.name][p].kind = "file"
                      /\ Bytes(dest, inodes, r.name, p) = r.src[p].data

ReadFailedMidFile(p) ==
    /\ p.rpc \in {"final", "md5", "done"}
    /\ 0 < p.pos /\ p.pos < p.size

C31_ReadErrorFailsFile ==
    \A f \in Files :
        (ReadFailedMidFile(pipes[f]) /\ pipes[f].state \notin {"idle", "running"})
            => /\ pipes[f].dst = NoFile
               /\ pipes[f].state # "returned"

(***************************************************************************)
(* C32: when the writer sees the cancel flag set before it writes a chunk, *)
(* neither that chunk nor a later one is written, the bytes of every       *)
(* remaining chunk are released, and the partly written destination file   *)
(* is removed.                                                             *)
(***************************************************************************)
\* write_file left its loop at the check of the flag, holding a chunk.
CancelObserved(p) ==
    /\ p.wpc \in {"after", "done"}
    /\ p.chunk # NoChunk
    /\ p.cancel_flag /\ ~p.io_error

C32_CancelObservedStopsWrites ==
    \A f \in Files :
        LET p == pipes[f] IN
        CancelObserved(p) =>
            /\ \A i \in 1..Len(p.written) : p.written[i] < p.chunk.off
            /\ p.state = "returned" => p.inflight = 0 /\ p.dst = NoFile

C36_DeleteOnlyWhenNeeded ==
    [][/\ (/\ space.pc = "walk"
           /\ space'.pc \in {"copy", "reclaim", "failed"}
           /\ space.available >= space'.need + SafetyMargin)
          => /\ space'.pc = "copy"
             /\ space'.sets = space.sets
             /\ space'.new = space.new
             /\ space'.deleted = space.deleted
             /\ space'.available = space.available
       /\ (space.pc # "idle" /\ space'.sets # space.sets)
          => /\ space.pc = "reclaim"
             /\ space.available < space.need + SafetyMargin]_vars

\* With auto_delete enabled and a candidate at hand, a call found exactly
\* the bytes asked for plus the margin and returned without deleting.
C36_Witness ==
    /\ space.pc = "copy"
    /\ space.auto_delete
    /\ space.deleted = {}
    /\ Deletable(ListBackupSets(space.sets, space.new), space.new) # {}
    /\ space.available = space.need + SafetyMargin

(***************************************************************************)
(* C37: a run that finds the manifest of the previous set failing its      *)
(* sidecar check or not parsing goes on as if there were no previous       *)
(* manifest: it has no hard-link base, no file takes the fast path or the  *)
(* CancelWrite path, and every file it walks is copied from the source to  *)
(* a file of its own in the new set.                                       *)
(***************************************************************************)
\* The manifest of a set fails its sidecar check or does not parse.
ManifestCorrupt(set) ==
    /\ set.manifest # NoManifest
    /\ \/ ~SidecarMatches(set.manifest, set.sidecar)
       \/ ~LoadManifest(set.manifest).ok

C37_CorruptManifestFullCopy ==
    \A i \in 2..Len(mf.runs) :
        LET r == mf.runs[i]
            set == mf.sets[r.set]
        IN ManifestCorrupt(mf.sets[r.set - 1]) =>
              /\ r.base = 0
              /\ \A n \in FileNames :
                    /\ r.how[n] \in {"none", "copy"}
                    /\ r.how[n] = "copy" =>
                          /\ set.files[n] # 0
                          /\ ContentAt(set, n) = r.source[n].content
                          /\ \A j \in 1..(r.set - 1) :
                                mf.sets[j].files[n] # set.files[n]
                    /\ (r.saved /\ r.source[n].exists) => r.how[n] = "copy"
              /\ r.saved =>
                    /\ set.manifest # NoManifest
                    /\ set.intact => set.manifest = SaveManifest(r.entries)
                    /\ Len(r.entries) = Len(WalkOrder(r.source))

\* A run over the source of the run before it, whose set has a manifest
\* that parses but fails its sidecar check, copied a file and saved.
C37_Witness ==
    \E i \in 2..Len(mf.runs) : \E n \in FileNames :
        /\ ManifestCorrupt(mf.sets[mf.runs[i].set - 1])
        /\ LoadManifest(mf.sets[mf.runs[i].set - 1].manifest).ok
        /\ mf.runs[i].saved
        /\ mf.runs[i].source = mf.runs[i - 1].source
        /\ mf.runs[i].how[n] = "copy"

(***************************************************************************)
(* C38: for every valid ordered sequence E of entries, loading the         *)
(* manifest that save has written for E gives E again, in the same order,  *)
(* and the sidecar that save has written holds the md5 of the manifest     *)
(* file, so that the load does not fail on it.                             *)
(***************************************************************************)
C38_SaveLoadRoundTrip ==
    /\ call.fn \in {"save", "load"} =>
          /\ call.sidecar # NoSidecar
          /\ SidecarMatches(call.manifest, call.sidecar)
          /\ SubSeq(call.sidecar, 1, HexLen) = TextMd5(call.manifest)
    /\ call.fn = "load" =>
          /\ call.loaded.ok
          /\ call.loaded.entries = call.entries

\* A manifest of two entries was saved and loaded, one of them with a path
\* that has spaces in it.
C38_Witness ==
    /\ call.fn = "load"
    /\ Len(call.entries) = 2
    /\ call.entries[1].path = <<97, 32, 32, 98>>
    /\ call.entries[2].path = <<32, 98>>
    /\ call.loaded.entries = call.entries

(***************************************************************************)
(* C39: a symbolic link in the source is skipped: the run makes nothing at *)
(* its path in the set, does not read what it points to, and goes on with  *)
(* the entries after it.  Stated for a run that found no previous set.     *)
(***************************************************************************)
\* Every folder above p is a directory of the tree.
RECURSIVE Listed(_, _)
Listed(tree, p) ==
    IF Len(p) = 1 THEN TRUE
    ELSE tree[Parent(p)].kind = "dir" /\ Listed(tree, Parent(p))

C39_SymlinkSkipped ==
    Len(runs) >= 1 =>
        LET r == runs[Len(runs)] IN
        (r.last = <<>> /\ \A p \in Paths : r.src[p].readable) =>
            /\ r.status # "fatal"
            /\ \A p \in Paths :
                  /\ (r.src[p].kind = "symlink" /\ Listed(r.src, p)) =>
                        dest[r.name][p].kind = "none"
                  /\ (r.src[p].kind = "file" /\ Listed(r.src, p)) =>
                        /\ dest[r.name][p].kind = "file"
                        /\ Bytes(dest, inodes, r.name, p) = r.src[p].data

(***************************************************************************)
(* C40: with the weight (1 / gap) ^ e for an exponent e > 0, a candidate   *)
(* whose gap in days to its predecessor is larger has a higher deletion    *)
(* weight than one whose gap is smaller; so the weight for a 10-day gap    *)
(* exceeds the weight for a 1-day gap at e = 2.                            *)
(***************************************************************************)
C40_LargerGapHigherWeight ==
    (call.fn = "calculate_deletion_weight" /\ call.gap_old > call.gap_recent)
        => call.weight_old > call.weight_recent

====
